---- MODULE Spec2Model ----
(***************************************************************************)
(* Verification model of SIR_models.py (classes SIR, SIHRF, SIR_sigmoid,   *)
(* SEIR, LearnerSEIR).                                                     *)
(*                                                                         *)
(* Arithmetic.  The program computes in floating point; the model computes *)
(* in exact rationals.  A rate parameter p is held as the integer          *)
(* numerator of p / PScale, the hospitalisation rate as n / d, and a       *)
(* derivative is returned as the tuple of its numerators over one common   *)
(* denominator (DenSIR, DenSIHRF, DenSEIR), so no rounding enters a        *)
(* statement about the derivative.  Compartment values of an instance are  *)
(* held in units of 1 / hospRate.d person, so that I_0 * rho is integral.  *)
(*                                                                         *)
(* Libraries.  scipy.optimize.minimize is a nondeterministic choice of the *)
(* trial points handed to loss and of the returned optimum; solve_ivp is a *)
(* fixed-step explicit scheme that calls the derivative once per row.      *)
(***************************************************************************)
EXTENDS Integers, Sequences, FiniteSets, TLC

VARIABLES variant, raw, cfg, self, pc, err, roll, log, fnIn, fnOut

vars == <<variant, raw, cfg, self, pc, err, roll, log, fnIn, fnOut>>

(***************************************************************************)
(* Bounds of the model.                                                    *)
(***************************************************************************)
RawLen == 3
MaxCount == 2
MaxNth == 3
MaxHorizon == 2
MaxTrials == 2
MaxCalls == 2
MaxRate == 2
MaxPop == 2
MaxLag == 2
MaxRows == 6

(***************************************************************************)
(* Scales of the rational arithmetic.                                      *)
(***************************************************************************)
PScale == 2
SScale == 2

NaN == -1000000

\* None, the default of the optional arguments; a pair of bounds is a tuple
None == <<>>

(***************************************************************************)
(* Element-wise helpers (pandas / numpy semantics, NaN propagating).       *)
(***************************************************************************)
RECURSIVE SumSeq(_)
SumSeq(s) == IF s = <<>> THEN 0 ELSE Head(s) + SumSeq(Tail(s))

Last(s) == s[Len(s)]

Sub(a, b) == IF a = NaN \/ b = NaN THEN NaN ELSE a - b

Mul(a, k) == IF a = NaN THEN NaN ELSE a * k

SeqSub(a, b) == [i \in 1..Len(a) |-> Sub(a[i], b[i])]

SeqAdd(a, b) == [i \in 1..Len(a) |-> IF a[i] = NaN \/ b[i] = NaN THEN NaN ELSE a[i] + b[i]]

SeqMul(a, k) == [i \in 1..Len(a) |-> Mul(a[i], k)]

\* Series.shift(k): every value moves k rows down, the first k rows are missing
shift(col, k) == [i \in 1..Len(col) |-> IF i <= k THEN NaN ELSE col[i - k]]

\* Series.cumsum(): a missing row stays missing and is skipped by the running sum
cumsum(col) ==
  [i \in 1..Len(col) |->
     IF col[i] = NaN THEN NaN
     ELSE SumSeq([j \in 1..i |-> IF col[j] = NaN THEN 0 ELSE col[j]])]

(***************************************************************************)
(* Date-indexed series: idx is the strictly increasing sequence of dates,  *)
(* val the values at these dates.                                          *)
(***************************************************************************)
Series(idx, val) == [idx |-> idx, val |-> val]

EmptySeries == Series(<<>>, <<>>)

Positions(s) == 1..Len(s.idx)

\* s.loc[d:], label slice from date d to the end
LocFrom(s, d) ==
  LET keep == {i \in Positions(s) : s.idx[i] >= d}
      off == Len(s.idx) - Cardinality(keep)
  IN Series([i \in 1..Cardinality(keep) |-> s.idx[off + i]],
            [i \in 1..Cardinality(keep) |-> s.val[off + i]])

\* s.loc[:d], label slice from the start to date d inclusive
LocTo(s, d) ==
  LET n == Cardinality({i \in Positions(s) : s.idx[i] <= d})
  IN Series([i \in 1..n |-> s.idx[i]], [i \in 1..n |-> s.val[i]])

\* index.get_loc(d): zero-based position of d, -1 standing for KeyError
get_loc(idx, d) ==
  IF \E i \in 1..Len(idx) : idx[i] = d
  THEN (CHOOSE i \in 1..Len(idx) : idx[i] = d) - 1
  ELSE -1

\* s.reindex(new_index): the value at each date of new_index, missing if absent
reindex(s, new_index) ==
  [i \in 1..Len(new_index) |->
     IF get_loc(s.idx, new_index[i]) >= 0
     THEN s.val[get_loc(s.idx, new_index[i]) + 1]
     ELSE NaN]

\* sorted sequence of a finite set of dates
SortedSeq(S) ==
  [i \in 1..Cardinality(S) |-> CHOOSE x \in S : Cardinality({y \in S : y < x}) = i - 1]

Range(s) == {s[i] : i \in 1..Len(s)}

\* pd.date_range(start, periods): periods consecutive days beginning AT start
date_range(start, periods) == {start + j : j \in 0..(periods - 1)}

\* SIR.extend_index
extend_index(index, new_size) ==
  LET new_values == date_range(Last(index), new_size)
  IN SortedSeq(Range(index) \cup new_values)

LearnerPeriods == 150

\* LearnerSEIR.extend_index: new_size is not used
Learner_extend_index(index, new_size) ==
  LET new_values == date_range(Last(index), LearnerPeriods)
  IN SortedSeq(Range(index) \cup new_values)

(***************************************************************************)
(* Derivatives.  p holds the attributes of self the derivative reads: the  *)
(* rates as numerators over PScale, beta_model as a ratio [n, d] (the      *)
(* sigmoid variant stores a computed ratio there), S_0_model the           *)
(* normalising pool.  y is the state.                                      *)
(***************************************************************************)
Rat(n) == [n |-> n, d |-> PScale]

DenSIR(p) == p.beta_model.d * PScale * p.S_0_model

\* SIR.model over DenSIR(p): -beta*S*I/S_0, beta*S*I/S_0 - gamma*I, gamma*I
SIR_model(t, y, p) ==
  LET S == y[1]
      I == y[2]
      b == p.beta_model
  IN << -(b.n * PScale * S * I),
        b.n * PScale * S * I - p.gamma_model * I * p.S_0_model * b.d,
        p.gamma_model * I * p.S_0_model * b.d >>

\* stand-in for np.exp: 2^k as a ratio [n, d], k clipped to -ExpClip..ExpClip
ExpClip == 3

RECURSIVE Pow2(_)
Pow2(k) == IF k <= 0 THEN 1 ELSE 2 * Pow2(k - 1)

Exp(xn, xd) ==
  LET q == xn \div xd
      k == IF q > ExpClip THEN ExpClip ELSE IF q < -ExpClip THEN -ExpClip ELSE q
  IN IF k >= 0 THEN [n |-> Pow2(k), d |-> 1] ELSE [n |-> 1, d |-> Pow2(-k)]

\* SIR_sigmoid.sigmoid: (beta1 - beta2) / (1 + exp((t - sig_normal_t)/lambda)) + beta2
sigmoid(t, p) ==
  LET e == Exp((t - p.sig_normal_t) * PScale, p.lambda_model)
  IN [n |-> (p.beta1_model - p.beta2_model) * e.d + p.beta2_model * (e.d + e.n),
      d |-> PScale * (e.d + e.n)]

\* SIR_sigmoid.model: self.beta_model = self.sigmoid(t), then the SIR derivative
SIR_sigmoid_model(t, y, p) ==
  SIR_model(t, y, [p EXCEPT !.beta_model = sigmoid(t, p)])

DenSIR_sigmoid(t, p) == DenSIR([p EXCEPT !.beta_model = sigmoid(t, p)])

DenSIHRF(p) == p.rho.d * p.beta_model.d * PScale * PScale * p.S_0_model

\* SIHRF.model with the recoveries from hospital not weighted by (1 - delta)
SIHRF_model_leak(t, y, p) ==
  LET S == y[1]
      I == y[2]
      H == y[3]
      I_tot == I + H
      k == p.rho.d * p.beta_model.d * p.S_0_model
      inf == PScale * PScale * p.beta_model.n * S * I_tot
      outI == k * PScale * p.gamma_I_model * I
      outHR == k * (PScale - p.delta_model) * p.gamma_H_model * H
      outHF == k * p.delta_model * p.omega_model * H
  IN << -(p.rho.d * inf),
        (p.rho.d - p.rho.n) * inf - outI,
        p.rho.n * inf - outHR - outHF,
        outI + k * PScale * p.gamma_H_model * H,
        outHF >>

\* SIHRF.model over DenSIHRF(p)
SIHRF_model(t, y, p) ==
  LET S == y[1]
      I == y[2]
      H == y[3]
      I_tot == I + H
      k == p.rho.d * p.beta_model.d * p.S_0_model
      inf == PScale * PScale * p.beta_model.n * S * I_tot
      outI == k * PScale * p.gamma_I_model * I
      outHR == k * (PScale - p.delta_model) * p.gamma_H_model * H
      outHF == k * p.delta_model * p.omega_model * H
  IN << -(p.rho.d * inf),
        (p.rho.d - p.rho.n) * inf - outI,
        p.rho.n * inf - outHR - outHF,
        outI + outHR,
        outHF >>

DenSEIR(den) == PScale * den

\* the rates SEIR.loss unpacks from its point; sigma is self.sigma
SEIR_loss_point(estimateBeta2, sigma, point) ==
  [beta |-> point[1], gamma |-> point[2],
   beta2 |-> IF estimateBeta2 THEN point[3] ELSE point[1], sigma |-> sigma]

\* the rates LearnerSEIR.loss unpacks from its point, sigma being its last entry
Learner_loss_point(estimateBeta2, point) ==
  [beta |-> point[1], gamma |-> point[2],
   beta2 |-> IF estimateBeta2 THEN point[3] ELSE point[1],
   sigma |-> IF estimateBeta2 THEN point[4] ELSE point[3]]

\* the closure switching one step late
SEIR_closure_late(t, y, p, den, quarantine_loc) ==
  LET S == y[1]
      E == y[2]
      I == y[3]
      b == IF t <= quarantine_loc THEN p.beta ELSE p.beta2
  IN << -(b * S * I),
        b * S * I - p.sigma * E * den,
        p.sigma * E * den - p.gamma * I * den,
        p.gamma * I * den >>

\* the closure SIR(t, y) of SEIR.loss / SEIR.predict (den = self.S_0) and of
\* LearnerSEIR.loss / LearnerSEIR.predict (den = self.R_0), over DenSEIR(den)
SEIR_closure(t, y, p, den, quarantine_loc) ==
  LET S == y[1]
      E == y[2]
      I == y[3]
      b == IF t < quarantine_loc THEN p.beta ELSE p.beta2
  IN << -(b * S * I),
        b * S * I - p.sigma * E * den,
        p.sigma * E * den - p.gamma * I * den,
        p.gamma * I * den >>

\* the closure SIR(t, y) of LearnerSEIR.predict_linear over DenSEIR(self.R_0):
\* it returns the next row, not the increment
Linear_closure(t, y, p, den, quarantine_loc, back_loc) ==
  LET S == y[1]
      I == y[2]
      R == y[3]
      b == IF t < quarantine_loc THEN p.beta
           ELSE IF t < back_loc THEN p.beta3 ELSE p.beta2
  IN << -(b * S * I) + S * DenSEIR(den),
        (b * S * I - p.gamma * I * den) + I * DenSEIR(den),
        p.gamma * I * den + R * DenSEIR(den) >>

(***************************************************************************)
(* The derivatives as numpy evaluates them: a value is a ratio [n, d], and *)
(* d = 0 marks a value that is not finite, n = 0 for NaN and n = 1 or -1   *)
(* for +inf or -inf.  Denominators are >= 0.                               *)
(***************************************************************************)
Sign(n) == IF n > 0 THEN 1 ELSE IF n < 0 THEN -1 ELSE 0

\* n / d of numpy floats: x / 0 is NaN for x = 0 and +-inf otherwise, with a
\* warning and no exception
np_div(n, d) == IF d # 0 THEN [n |-> n, d |-> d] ELSE [n |-> Sign(n), d |-> 0]

np_neg(a) == [n |-> -a.n, d |-> a.d]

\* a - b for a finite b
np_sub(a, b) == IF a.d = 0 THEN a ELSE [n |-> a.n * b.d - b.n * a.d, d |-> a.d * b.d]

\* SIR.model: the transmission term is divided by self.S_0_model as it is
SIR_model_values(t, y, p) ==
  LET S == y[1]
      I == y[2]
      b == p.beta_model
      inf == np_div(b.n * S * I, b.d * p.S_0_model)
      out == [n |-> p.gamma_model * I, d |-> PScale]
  IN << np_neg(inf), np_sub(inf, out), out >>

\* the closure SIR(t, y) of LearnerSEIR.loss and LearnerSEIR.predict: the
\* transmission term is divided by self.R_0 (den) as it is
SEIR_closure_values(t, y, p, den, quarantine_loc) ==
  LET S == y[1]
      E == y[2]
      I == y[3]
      b == IF t < quarantine_loc THEN p.beta ELSE p.beta2
      inf == np_div(b * S * I, PScale * den)
      sig == [n |-> p.sigma * E, d |-> PScale]
      gam == [n |-> p.gamma * I, d |-> PScale]
  IN << np_neg(inf), np_sub(inf, sig), np_sub(sig, gam), gam >>

(***************************************************************************)
(* SIR.calculateNB on the table df; hospRate is the ratio n / d and the    *)
(* column H is returned as numerators over hospRate.d.                     *)
(***************************************************************************)
hospDemand(df, hospRate, daysToHosp) ==
  shift(SeqMul(SeqSub(shift(df.S, 1), df.S), hospRate.n), daysToHosp)

\* discharge one day later than hospitalDuration
hospExpire_late(df, hospRate, daysToHosp, hospitalDuration) ==
  shift(hospDemand(df, hospRate, daysToHosp), hospitalDuration + 1)

hospExpire(df, hospRate, daysToHosp, hospitalDuration) ==
  shift(hospDemand(df, hospRate, daysToHosp), hospitalDuration)

calculateNB(df, hospRate, daysToHosp, hospitalDuration) ==
  [c \in (DOMAIN df) \cup {"H"} |->
     IF c = "H"
     THEN SeqSub(cumsum(hospDemand(df, hospRate, daysToHosp)),
                 cumsum(hospExpire(df, hospRate, daysToHosp, hospitalDuration)))
     ELSE df[c]]

(***************************************************************************)
(* Inputs of a run: the class constructed, the three raw series the CSSE   *)
(* files hold for the country (dates 1..RawLen, cumulative counts with     *)
(* recovered + fatal <= confirmed), and the constructor arguments.         *)
(* quarantineDate 0 is None.  adjust_recovered keeps its default, False.   *)
(* alpha is a numerator over PScale, alphas are numerators over            *)
(* AlphaScale; bounds lie on the PScale grid, where the lower end 1e-8 of  *)
(* the defaults is 0.                                                      *)
(***************************************************************************)
Variants == {"SIR", "SIR_sigmoid", "SIHRF"}

AlphaScale == 3

RawIndex == [i \in 1..RawLen |-> i]

NonDecreasing(s) == \A i \in 1..(Len(s) - 1) : s[i] <= s[i + 1]

RawInputs ==
  {r \in [confirmed : [1..RawLen -> 0..MaxCount],
          recovered : [1..RawLen -> 0..1],
          fatal : [1..RawLen -> 0..1]] :
     /\ NonDecreasing(r.confirmed)
     /\ NonDecreasing(r.recovered)
     /\ NonDecreasing(r.fatal)
     /\ \A i \in 1..RawLen : r.recovered[i] + r.fatal[i] <= r.confirmed[i]}

\* the series and arguments of the runs that go on to fit: the confirmed count
\* steps up to MaxCount on the second date, recovered and fatal step up to 1
StepSeq(k, lo, hi) == [i \in 1..RawLen |-> IF i < k THEN lo ELSE hi]

FitRawInputs ==
  {[confirmed |-> StepSeq(2, c0, MaxCount),
    recovered |-> StepSeq(kr, 0, 1),
    fatal |-> StepSeq(kf, 0, 1)] :
     c0 \in {1}, kr \in {2, RawLen}, kf \in {RawLen, RawLen + 1}}
  \cup {[confirmed |-> StepSeq(2, 0, MaxCount),
         recovered |-> StepSeq(2, 0, 1),
         fatal |-> StepSeq(RawLen + 1, 0, 1)]}

FitConfigs ==
  [N : {SScale * MaxPop},
   infectedAssumption : {1},
   recoveredAssumption : {1},
   nth : {1},
   daysPredict : {MaxHorizon},
   quarantineDate : {0, 1},
   hospRate : {[n |-> 1, d |-> 2]},
   daysToHosp : {1},
   daysToLeave : {1},
   R0bounds : {None, <<0, 20>>},
   alpha : {1},
   alphas : {<<1, 1, 1>>},
   betaBounds : {<<0, 2 * PScale>>}]

Configs ==
  [N : {SScale * MaxPop},
   infectedAssumption : {1, 2},
   recoveredAssumption : {1, 2},
   nth : 1..MaxNth,
   daysPredict : {0, MaxHorizon},
   quarantineDate : {0, 1, RawLen},
   hospRate : {[n |-> 1, d |-> 2]},
   daysToHosp : {1},
   daysToLeave : {1},
   R0bounds : {None},
   alpha : {1},
   alphas : {<<1, 1, 1>>},
   betaBounds : {<<0, 2 * PScale>>}]

\* constructor arguments off their admissible range, one at a time: a negative
\* population, a weight above 1, weights summing to more than 1, a pair of
\* bounds with the lower end above the upper end
InvalidConfigs ==
  LET c == CHOOSE c \in Configs : c.nth = 1 /\ c.quarantineDate = 0
  IN {[c EXCEPT !.N = -SScale * MaxPop],
      [c EXCEPT !.alpha = PScale + 1],
      [c EXCEPT !.alphas = <<1, 1, 2>>],
      [c EXCEPT !.betaBounds = <<2 * PScale, 1>>],
      [c EXCEPT !.R0bounds = <<20, 0>>]}

(***************************************************************************)
(* The instance.  Attributes not yet assigned hold a default; fitted,      *)
(* lossRun and hasDf say which groups of attributes exist.                 *)
(***************************************************************************)
BlankSelf ==
  [N |-> 0, infectedAssumption |-> 0, recoveredAssumption |-> 0, R_0th |-> 0,
   daysPredict |-> 0, quarantineDate |-> 0, hospRate |-> [n |-> 0, d |-> 1],
   daysToHosp |-> 0, hospitalDuration |-> 0, rho |-> [n |-> 0, d |-> 1],
   confirmed |-> EmptySeries, recovered |-> EmptySeries, fatal |-> EmptySeries,
   quarantine_index |-> EmptySeries,
   R_actual |-> EmptySeries, I_actual |-> EmptySeries, F_actual |-> EmptySeries,
   R_0 |-> 0, I_0 |-> 0, H_0 |-> 0, F_0 |-> 0, end_data |-> 0,
   quarantine_loc |-> 0, sig_normal_t |-> 0,
   fitted |-> FALSE,
   beta |-> 0, gamma |-> 0, S_0 |-> 0, R0 |-> [n |-> 0, d |-> 1],
   gamma_I |-> 0, gamma_H |-> 0, omega |-> 0, delta |-> 0,
   beta1 |-> 0, beta2 |-> 0, lamb |-> 0,
   lossRun |-> FALSE,
   beta_model |-> Rat(0), gamma_model |-> 0, S_0_model |-> 0,
   gamma_I_model |-> 0, gamma_H_model |-> 0, omega_model |-> 0, delta_model |-> 0,
   beta1_model |-> 0, beta2_model |-> 0, lambda_model |-> 0,
   hasDf |-> FALSE, df |-> [index |-> <<>>],
   rollingList |-> [index |-> <<>>, beta |-> <<>>, gamma |-> <<>>],
   rollingHospList |-> [index |-> <<>>, H_max |-> <<>>],
   R0bounds |-> None, gammaBounds |-> <<0, 2 * PScale>>,
   alpha |-> 0, alphas |-> <<0, 0, 0>>, betaBounds |-> <<0, 0>>]

\* compartment values are held in units of 1 / Units(s) person
Units(s) == s.hospRate.d

\* SIR.initialize_parameters with I_0 not reduced by the removed
SIR_initialize_parameters_gross(s) ==
  LET R_0 == s.recovered.val[1] + s.fatal.val[1]
  IN [s EXCEPT !.R_0 = Units(s) * R_0,
               !.I_0 = Units(s) * s.confirmed.val[1]]

\* SIR.initialize_parameters
SIR_initialize_parameters(s) ==
  LET R_0 == s.recovered.val[1] + s.fatal.val[1]
  IN [s EXCEPT !.R_0 = Units(s) * R_0,
               !.I_0 = Units(s) * (s.confirmed.val[1] - R_0)]

\* SIHRF.initialize_parameters: H_0 = I_0 * rho, I_0 = I_0 * (1 - rho)
SIHRF_initialize_parameters(s) ==
  LET R_0 == s.recovered.val[1]
      F_0 == s.fatal.val[1]
      I_0 == s.confirmed.val[1] - R_0 - F_0
  IN [s EXCEPT !.R_0 = Units(s) * R_0,
               !.F_0 = Units(s) * F_0,
               !.H_0 = I_0 * s.rho.n,
               !.I_0 = I_0 * (s.rho.d - s.rho.n)]

initialize_parameters(var, s) ==
  IF var = "SIHRF" THEN SIHRF_initialize_parameters(s) ELSE SIR_initialize_parameters(s)

\* the selection of line 88 with > in place of >=
ReachedDates_strict(confirmed, nth) ==
  {confirmed.idx[i] : i \in {j \in Positions(confirmed) : confirmed.val[j] > nth}}

\* the dates at which the scaled confirmed count has reached the threshold
\* (self.confirmed[self.confirmed >= self.R_0th].index)
ReachedDates(confirmed, nth) ==
  {confirmed.idx[i] : i \in {j \in Positions(confirmed) : confirmed.val[j] >= nth}}

Min(S) == CHOOSE x \in S : \A y \in S : x <= y

\* SIR.load_data taking the first date as the default of the intervention date
SIR_load_data_first(var, s, r) ==
  LET confirmed == Series(RawIndex, SeqMul(r.confirmed, s.infectedAssumption))
      recovered == Series(RawIndex,
                          SeqMul(r.recovered, s.infectedAssumption * s.recoveredAssumption))
      fatal == Series(RawIndex, r.fatal)
      nth_index == Min(ReachedDates(confirmed, s.R_0th))
      quarantineDate == IF s.quarantineDate = 0 THEN confirmed.idx[1]
                        ELSE s.quarantineDate
      quarantine_index ==
        Series(confirmed.idx,
               [i \in 1..Len(confirmed.idx) |-> confirmed.idx[i] >= quarantineDate])
      s1 == [s EXCEPT !.quarantineDate = quarantineDate,
                      !.quarantine_index = LocFrom(quarantine_index, nth_index),
                      !.confirmed = LocFrom(confirmed, nth_index),
                      !.fatal = LocFrom(fatal, nth_index),
                      !.recovered = LocFrom(recovered, nth_index)]
      s2 == initialize_parameters(var, s1)
      R_actual == Series(s2.fatal.idx, SeqAdd(s2.fatal.val, s2.recovered.val))
  IN [s2 EXCEPT !.R_actual = R_actual,
                !.I_actual = Series(s2.confirmed.idx, SeqSub(s2.confirmed.val, R_actual.val))]

\* SIR.load_data after load_CSSE, up to the truncation; called only when the
\* threshold is reached
SIR_load_data(var, s, r) ==
  LET confirmed == Series(RawIndex, SeqMul(r.confirmed, s.infectedAssumption))
      recovered == Series(RawIndex,
                          SeqMul(r.recovered, s.infectedAssumption * s.recoveredAssumption))
      fatal == Series(RawIndex, r.fatal)
      nth_index == Min(ReachedDates(confirmed, s.R_0th))
      quarantineDate == IF s.quarantineDate = 0 THEN Last(confirmed.idx)
                        ELSE s.quarantineDate
      quarantine_index ==
        Series(confirmed.idx,
               [i \in 1..Len(confirmed.idx) |-> confirmed.idx[i] >= quarantineDate])
      s1 == [s EXCEPT !.quarantineDate = quarantineDate,
                      !.quarantine_index = LocFrom(quarantine_index, nth_index),
                      !.confirmed = LocFrom(confirmed, nth_index),
                      !.fatal = LocFrom(fatal, nth_index),
                      !.recovered = LocFrom(recovered, nth_index)]
      s2 == initialize_parameters(var, s1)
      R_actual == Series(s2.fatal.idx, SeqAdd(s2.fatal.val, s2.recovered.val))
  IN [s2 EXCEPT !.R_actual = R_actual,
                !.I_actual = Series(s2.confirmed.idx, SeqSub(s2.confirmed.val, R_actual.val))]

\* SIHRF.load_data: the observed series are redefined after SIR.load_data
SIHRF_load_data(var, s, r) ==
  LET s1 == SIR_load_data(var, s, r)
  IN [s1 EXCEPT !.R_actual = s1.recovered,
                !.F_actual = s1.fatal,
                !.I_actual = Series(s1.confirmed.idx,
                                    SeqSub(SeqSub(s1.confirmed.val, s1.recovered.val),
                                           s1.fatal.val))]

load_data(var, s, r) ==
  IF var = "SIHRF" THEN SIHRF_load_data(var, s, r) ELSE SIR_load_data(var, s, r)

\* does the selection of line 88 hold a first element
ThresholdReached(r, c) ==
  ReachedDates(Series(RawIndex, SeqMul(r.confirmed, c.infectedAssumption)), c.nth) # {}

\* SIR.__init__ (and SIHRF.__init__, SIR_sigmoid.__init__), the threshold reached
init(var, c, r) ==
  LET s0 == [BlankSelf EXCEPT !.N = c.N,
                              !.infectedAssumption = c.infectedAssumption,
                              !.recoveredAssumption = c.recoveredAssumption,
                              !.R_0th = c.nth,
                              !.daysPredict = c.daysPredict,
                              !.quarantineDate = c.quarantineDate,
                              !.hospRate = c.hospRate,
                              !.daysToHosp = c.daysToHosp,
                              !.hospitalDuration = c.daysToLeave,
                              !.rho = c.hospRate,
                              !.R0bounds = c.R0bounds,
                              !.alpha = c.alpha,
                              !.alphas = c.alphas,
                              !.betaBounds = c.betaBounds]
      s1 == load_data(var, s0, r)
  IN [s1 EXCEPT !.end_data = Last(s1.confirmed.idx)]

(***************************************************************************)
(* Trial points the optimizer hands to loss: rates as numerators over      *)
(* PScale, S_0p as a numerator over SScale.                                *)
(***************************************************************************)
TrialPoints(var) ==
  CASE var = "SIR" ->
         {[beta |-> 1, gamma |-> 1, S_0p |-> 1],
          [beta |-> 2, gamma |-> 1, S_0p |-> SScale]}
    [] var = "SIHRF" ->
         {[beta |-> 1, gamma_I |-> 1, gamma_H |-> 1, omega |-> 1, S_0p |-> 1, delta |-> 1],
          [beta |-> 2, gamma_I |-> 2, gamma_H |-> 1, omega |-> 2, S_0p |-> SScale,
           delta |-> 0]}
    [] var = "SIR_sigmoid" ->
         {[beta1 |-> 2, beta2 |-> 1, lamb |-> 1, gamma |-> 1, S_0p |-> 1],
          [beta1 |-> 1, beta2 |-> 1, lamb |-> 2, gamma |-> 2, S_0p |-> SScale]}

TrialSeqs(var) ==
  UNION {[1..n -> TrialPoints(var)] : n \in 1..MaxTrials}

\* self.N * S_0p in units; N is a multiple of SScale, so the quotient is exact
S0Of(s, S_0p) == (Units(s) * s.N * S_0p) \div SScale

\* the attributes of self a derivative reads
ModelParams(s) ==
  [beta_model |-> s.beta_model, gamma_model |-> s.gamma_model,
   S_0_model |-> s.S_0_model, gamma_I_model |-> s.gamma_I_model,
   gamma_H_model |-> s.gamma_H_model, omega_model |-> s.omega_model,
   delta_model |-> s.delta_model, beta1_model |-> s.beta1_model,
   beta2_model |-> s.beta2_model, lambda_model |-> s.lambda_model,
   sig_normal_t |-> s.sig_normal_t, rho |-> s.rho]

\* self.model(t, y) of the class, and the denominator of what it returns
model(var, t, y, p) ==
  CASE var = "SIR" -> SIR_model(t, y, p)
    [] var = "SIHRF" -> SIHRF_model(t, y, p)
    [] var = "SIR_sigmoid" -> SIR_sigmoid_model(t, y, p)

Den(var, t, p) ==
  CASE var = "SIR" -> DenSIR(p)
    [] var = "SIHRF" -> DenSIHRF(p)
    [] var = "SIR_sigmoid" -> DenSIR_sigmoid(t, p)

\* solve_ivp(self.model, [0, size], y0, t_eval=np.arange(0, size, 1)): one row
\* per evaluation point; the stand-in advances by one unit step per row
solve_ivp(var, p, size, y0) ==
  LET row[t \in 0..(size - 1)] ==
        IF t = 0 THEN y0
        ELSE LET y == row[t - 1]
                 f == model(var, t - 1, y, p)
             IN [i \in 1..Len(y) |-> y[i] + (f[i] \div Den(var, t - 1, p))]
  IN [t \in 1..size |-> row[t - 1]]

\* solution.y[k]
Col(sol, k) == [t \in 1..Len(sol) |-> sol[t][k]]

\* SIR_sigmoid.model leaves the beta of its last call in self.beta_model
AfterSolve(var, s, size) ==
  IF var = "SIR_sigmoid"
  THEN [s EXCEPT !.beta_model = sigmoid(size - 1, ModelParams(s))]
  ELSE s

\* does the subtraction of an array of k simulated values and an observed
\* series of n values raise ValueError: numpy broadcasts an array of one value
\* over the series and refuses every other difference of lengths
SubRaises(k, n) == k # n /\ k # 1

\* sum over the rows of (simulated - observed)^2, the observed series in units
SqErr(s, sim, actual) ==
  IF SubRaises(Len(sim), Len(actual.val)) THEN NaN
  ELSE SumSeq([i \in 1..Len(actual.val) |->
                 LET d == (IF Len(sim) = 1 THEN sim[1] ELSE sim[i])
                          - Units(s) * actual.val[i]
                 IN d * d])

\* does the loss of the class raise ValueError on the observed series self
\* holds, the solution having one value per date of I_actual
LossRaises(var, s) ==
  \/ SubRaises(Len(s.I_actual.idx), Len(s.R_actual.idx))
  \/ var = "SIHRF" /\ SubRaises(Len(s.I_actual.idx), Len(s.F_actual.idx))

\* lines 189-193 of SIR.loss on what solve_ivp returned, solution holding the
\* rows of the evaluation points it reached: the exception raised ("none" when
\* loss returns) and the squared errors behind l1 and l2.  Nothing reads
\* solution.status; with no row, solution.y is an empty list
SIR_loss_score(s, solution) ==
  IF solution = <<>> THEN [raised |-> "IndexError", value |-> <<>>]
  ELSE IF \/ SubRaises(Len(solution), Len(s.I_actual.val))
          \/ SubRaises(Len(solution), Len(s.R_actual.val))
  THEN [raised |-> "ValueError", value |-> <<>>]
  ELSE [raised |-> "none",
        value |-> <<SqErr(s, Col(solution, 2), s.I_actual),
                    SqErr(s, Col(solution, 3), s.R_actual)>>]

\* SIR.loss: the attributes it leaves in self and the squared errors (l1, l2)
SIR_loss(s, point) ==
  LET size == Len(s.I_actual.idx)
      s1 == [s EXCEPT !.beta_model = Rat(point.beta),
                      !.gamma_model = point.gamma,
                      !.S_0_model = S0Of(s, point.S_0p),
                      !.lossRun = TRUE]
      solution == solve_ivp("SIR", ModelParams(s1), size, <<s1.S_0_model, s1.I_0, s1.R_0>>)
  IN [self |-> s1,
      y0 |-> <<s1.S_0_model, s1.I_0, s1.R_0>>,
      compared |-> <<s.I_actual, s.R_actual>>,
      value |-> <<SqErr(s, Col(solution, 2), s.I_actual),
                  SqErr(s, Col(solution, 3), s.R_actual)>>]

\* (1-rho)*gamma_I + rho*((1-delta)*gamma_H + delta*omega), over rho.d * PScale^2
BlendedGamma(s, gamma_I, gamma_H, omega, delta) ==
  (s.rho.d - s.rho.n) * gamma_I * PScale
  + s.rho.n * ((PScale - delta) * gamma_H + delta * omega)

\* SIHRF.loss
SIHRF_loss(s, point) ==
  LET size == Len(s.I_actual.idx)
      s1 == [s EXCEPT !.gamma_model = BlendedGamma(s, point.gamma_I, point.gamma_H,
                                                   point.omega, point.delta),
                      !.beta_model = Rat(point.beta),
                      !.gamma_I_model = point.gamma_I,
                      !.gamma_H_model = point.gamma_H,
                      !.omega_model = point.omega,
                      !.delta_model = point.delta,
                      !.S_0_model = S0Of(s, point.S_0p),
                      !.lossRun = TRUE]
      y0 == <<s1.S_0_model, s1.I_0, s1.H_0, s1.R_0, s1.F_0>>
      solution == solve_ivp("SIHRF", ModelParams(s1), size, y0)
  IN [self |-> s1,
      y0 |-> y0,
      compared |-> <<s.I_actual, s.R_actual, s.F_actual>>,
      value |-> <<SqErr(s, SeqAdd(Col(solution, 2), Col(solution, 3)), s.I_actual),
                  SqErr(s, Col(solution, 4), s.R_actual),
                  SqErr(s, Col(solution, 5), s.F_actual)>>]

\* SIR_sigmoid.loss
SIR_sigmoid_loss(s, point) ==
  LET size == Len(s.I_actual.idx)
      s1 == [s EXCEPT !.beta1_model = point.beta1,
                      !.beta2_model = point.beta2,
                      !.lambda_model = point.lamb,
                      !.gamma_model = point.gamma,
                      !.S_0_model = S0Of(s, point.S_0p),
                      !.lossRun = TRUE]
      y0 == <<s1.S_0_model, s1.I_0, s1.R_0>>
      solution == solve_ivp("SIR_sigmoid", ModelParams(s1), size, y0)
  IN [self |-> AfterSolve("SIR_sigmoid", s1, size),
      y0 |-> y0,
      compared |-> <<s.I_actual, s.R_actual>>,
      value |-> <<SqErr(s, Col(solution, 2), s.I_actual),
                  SqErr(s, Col(solution, 3), s.R_actual)>>]

loss(var, s, point) ==
  CASE var = "SIR" -> SIR_loss(s, point)
    [] var = "SIHRF" -> SIHRF_loss(s, point)
    [] var = "SIR_sigmoid" -> SIR_sigmoid_loss(s, point)

\* minimize(self.loss, ...): loss is called on each trial point in turn
RECURSIVE RunTrials(_, _, _)
RunTrials(var, s, trials) ==
  IF trials = <<>> THEN s
  ELSE RunTrials(var, loss(var, s, Head(trials)).self, Tail(trials))

\* the first statements of estimate: the intervention offset (line 125, 411, 707-708)
estimate_begin(var, s) ==
  LET quarantine_loc == get_loc(s.confirmed.idx, s.quarantineDate)
  IN IF var = "SIR_sigmoid"
     THEN [s EXCEPT !.quarantine_loc = quarantine_loc,
                    !.sig_normal_t = quarantine_loc + 7]
     ELSE [s EXCEPT !.quarantine_loc = quarantine_loc]

\* the start point estimate hands to minimize, a literal of the code, in thousandths
StartPoint(var) ==
  CASE var = "SIR" -> [beta |-> 200, gamma |-> 70, S_0p |-> 10]
    [] var = "SIHRF" -> [beta |-> 200, gamma_I |-> 70, gamma_H |-> 70, omega |-> 70,
                         S_0p |-> 10, delta |-> 50]
    [] var = "SIR_sigmoid" -> [beta1 |-> 200, beta2 |-> 200, lamb |-> 1000,
                               gamma |-> 70, S_0p |-> 10]

\* SIR.estimate; x is optimal.x
SIR_estimate(s, trials, x) ==
  LET s0 == estimate_begin("SIR", s)
      s1 == RunTrials("SIR", s0, trials)
  IN [s1 EXCEPT !.beta = x.beta,
                !.gamma = x.gamma,
                !.S_0 = S0Of(s, x.S_0p),
                !.R0 = [n |-> x.beta, d |-> x.gamma],
                !.fitted = TRUE]

\* SIHRF.estimate; self.gamma is the blended gamma over rho.d * PScale^2
SIHRF_estimate(s, trials, x) ==
  LET s0 == estimate_begin("SIHRF", s)
      s1 == RunTrials("SIHRF", s0, trials)
      gamma == BlendedGamma(s, x.gamma_I, x.gamma_H, x.omega, x.delta)
  IN [s1 EXCEPT !.beta = x.beta,
                !.gamma = gamma,
                !.S_0 = S0Of(s, x.S_0p),
                !.gamma_I = x.gamma_I,
                !.gamma_H = x.gamma_H,
                !.omega = x.omega,
                !.delta = x.delta,
                !.R0 = [n |-> x.beta * s.rho.d * PScale, d |-> gamma],
                !.fitted = TRUE]

\* SIR_sigmoid.estimate
SIR_sigmoid_estimate(s, trials, x) ==
  LET s0 == estimate_begin("SIR_sigmoid", s)
      s1 == RunTrials("SIR_sigmoid", s0, trials)
  IN [s1 EXCEPT !.beta1 = x.beta1,
                !.beta2 = x.beta2,
                !.lamb = x.lamb,
                !.gamma = x.gamma,
                !.S_0 = S0Of(s, x.S_0p),
                !.fitted = TRUE]

estimate(var, s, trials, x) ==
  CASE var = "SIR" -> SIR_estimate(s, trials, x)
    [] var = "SIHRF" -> SIHRF_estimate(s, trials, x)
    [] var = "SIR_sigmoid" -> SIR_sigmoid_estimate(s, trials, x)

(***************************************************************************)
(* The inequality constraints estimate hands to minimize.  A margin is a   *)
(* ratio [n, d] with d > 0; R0bounds holds plain numbers, gammaBounds      *)
(* numerators over PScale.  A tuple's first element is index 0 of the code.*)
(***************************************************************************)
\* SIR.const_lowerBoundR0: (beta/gamma) - self.R0bounds[0]
const_lowerBoundR0(s, point) ==
  [n |-> point.beta - s.R0bounds[1] * point.gamma, d |-> point.gamma]

\* SIR.const_upperBoundR0 reading the lower end of self.R0bounds
const_upperBoundR0_lower(s, point) ==
  [n |-> s.R0bounds[1] * point.gamma - point.beta, d |-> point.gamma]

\* SIR.const_upperBoundR0: self.R0bounds[1] - (beta/gamma)
const_upperBoundR0(s, point) ==
  [n |-> s.R0bounds[2] * point.gamma - point.beta, d |-> point.gamma]

\* SIR_sigmoid.const_lowerBoundR0: beta = (beta1 + beta2) / 2
Sigmoid_const_lowerBoundR0(s, point) ==
  [n |-> (point.beta1 + point.beta2) - s.R0bounds[1] * 2 * point.gamma,
   d |-> 2 * point.gamma]

\* SIR_sigmoid.const_upperBoundR0
Sigmoid_const_upperBoundR0(s, point) ==
  [n |-> s.R0bounds[2] * 2 * point.gamma - (point.beta1 + point.beta2),
   d |-> 2 * point.gamma]

\* SIR_sigmoid.const_betas: beta1 - beta2
const_betas(s, point) == [n |-> point.beta1 - point.beta2, d |-> PScale]

\* the gamma of the SIHRF constraints, gamma_I + (1-delta)*gamma_H + delta*omega,
\* over PScale^2
SIHRF_const_gamma(point) ==
  point.gamma_I * PScale + (PScale - point.delta) * point.gamma_H
  + point.delta * point.omega

\* SIHRF.const_lowerBound_gamma
const_lowerBound_gamma(s, point) ==
  [n |-> SIHRF_const_gamma(point) - s.gammaBounds[1] * PScale, d |-> PScale * PScale]

\* SIHRF.const_upperBound_gamma
const_upperBound_gamma(s, point) ==
  [n |-> s.gammaBounds[2] * PScale - SIHRF_const_gamma(point), d |-> PScale * PScale]

\* SIHRF.const_lowerBound_R0: R0 = beta / gamma with the gamma above
const_lowerBound_R0(s, point) ==
  [n |-> point.beta * PScale - s.R0bounds[1] * SIHRF_const_gamma(point),
   d |-> SIHRF_const_gamma(point)]

\* SIHRF.const_upperBound_R0
const_upperBound_R0(s, point) ==
  [n |-> s.R0bounds[2] * SIHRF_const_gamma(point) - point.beta * PScale,
   d |-> SIHRF_const_gamma(point)]

\* the constraints list of estimate evaluated at a trial point
constraints(var, s, point) ==
  CASE var = "SIR" -> <<const_lowerBoundR0(s, point), const_upperBoundR0(s, point)>>
    [] var = "SIR_sigmoid" -> <<Sigmoid_const_lowerBoundR0(s, point),
                                Sigmoid_const_upperBoundR0(s, point),
                                const_betas(s, point)>>
    [] var = "SIHRF" -> <<const_lowerBound_R0(s, point), const_upperBound_R0(s, point),
                          const_lowerBound_gamma(s, point),
                          const_upperBound_gamma(s, point)>>

(***************************************************************************)
(* predict.  Each predict is split in the attributes it sets before the    *)
(* integration (setup) and the table it builds.                            *)
(***************************************************************************)
SIR_predict_setup(s) ==
  [s EXCEPT !.beta_model = Rat(s.beta),
            !.gamma_model = s.gamma,
            !.S_0_model = s.S_0,
            !.quarantine_loc = get_loc(s.confirmed.idx, s.quarantineDate)]

\* SIR.predict keeping the reindexed confirmed series in self
SIR_predict_reindexed(s) ==
  LET new_index == extend_index(s.confirmed.idx, s.daysPredict)
      size == Len(new_index)
      s1 == [s EXCEPT !.beta_model = Rat(s.beta),
                      !.gamma_model = s.gamma,
                      !.S_0_model = s.S_0,
                      !.quarantine_loc = get_loc(s.confirmed.idx, s.quarantineDate),
                      !.confirmed = Series(new_index, reindex(s.confirmed, new_index))]
      prediction == solve_ivp("SIR", ModelParams(s1), size, <<s.S_0, s.I_0, s.R_0>>)
      df == [index |-> new_index,
             I_Actual |-> reindex(s.I_actual, new_index),
             R_Actual |-> reindex(s.R_actual, new_index),
             S |-> Col(prediction, 1),
             I |-> Col(prediction, 2),
             R |-> Col(prediction, 3)]
  IN [s1 EXCEPT !.df = calculateNB(df, s.hospRate, s.daysToHosp, s.hospitalDuration),
                !.hasDf = TRUE]

\* SIR.predict
SIR_predict(s) ==
  LET new_index == extend_index(s.confirmed.idx, s.daysPredict)
      size == Len(new_index)
      s1 == SIR_predict_setup(s)
      prediction == solve_ivp("SIR", ModelParams(s1), size, <<s.S_0, s.I_0, s.R_0>>)
      df == [index |-> new_index,
             I_Actual |-> reindex(s.I_actual, new_index),
             R_Actual |-> reindex(s.R_actual, new_index),
             S |-> Col(prediction, 1),
             I |-> Col(prediction, 2),
             R |-> Col(prediction, 3)]
  IN [s1 EXCEPT !.df = calculateNB(df, s.hospRate, s.daysToHosp, s.hospitalDuration),
                !.hasDf = TRUE]

\* SIHRF.predict assigns none of the *_model attributes
SIHRF_predict_setup(s) ==
  [s EXCEPT !.quarantine_loc = get_loc(s.confirmed.idx, s.quarantineDate)]

\* SIHRF.predict
SIHRF_predict(s) ==
  LET new_index == extend_index(s.confirmed.idx, s.daysPredict)
      size == Len(new_index)
      s1 == SIHRF_predict_setup(s)
      prediction == solve_ivp("SIHRF", ModelParams(s1), size,
                              <<s.S_0, s.I_0, s.H_0, s.R_0, s.F_0>>)
      df == [index |-> new_index,
             I_Actual |-> reindex(s.I_actual, new_index),
             R_Actual |-> reindex(s.R_actual, new_index),
             F_Actual |-> reindex(s.F_actual, new_index),
             S |-> Col(prediction, 1),
             IN_ |-> Col(prediction, 2),   \* column 'IN' (a reserved word here)
             H |-> Col(prediction, 3),
             R |-> Col(prediction, 4),
             F |-> Col(prediction, 5),
             I |-> SeqAdd(Col(prediction, 2), Col(prediction, 3))]
  IN [s1 EXCEPT !.df = df, !.hasDf = TRUE]

\* SIR_sigmoid.predict assigns none of the *_model attributes either
SIR_sigmoid_predict_setup(s) ==
  [s EXCEPT !.quarantine_loc = get_loc(s.confirmed.idx, s.quarantineDate)]

\* SIR_sigmoid.predict
SIR_sigmoid_predict(s) ==
  LET new_index == extend_index(s.confirmed.idx, s.daysPredict)
      size == Len(new_index)
      s1 == SIR_sigmoid_predict_setup(s)
      prediction == solve_ivp("SIR_sigmoid", ModelParams(s1), size, <<s.S_0, s.I_0, s.R_0>>)
      df == [index |-> new_index,
             I_Actual |-> reindex(s.I_actual, new_index),
             R_Actual |-> reindex(s.R_actual, new_index),
             S |-> Col(prediction, 1),
             I |-> Col(prediction, 2),
             R |-> Col(prediction, 3)]
      s2 == AfterSolve("SIR_sigmoid", s1, size)
  IN [s2 EXCEPT !.df = calculateNB(df, s.hospRate, s.daysToHosp, s.hospitalDuration),
                !.hasDf = TRUE]

predict(var, s) ==
  CASE var = "SIR" -> SIR_predict(s)
    [] var = "SIHRF" -> SIHRF_predict(s)
    [] var = "SIR_sigmoid" -> SIR_sigmoid_predict(s)

\* the parameter attributes the derivative reads while predict integrates
predict_reads(var, s) ==
  CASE var = "SIR" -> ModelParams(SIR_predict_setup(s))
    [] var = "SIHRF" -> ModelParams(SIHRF_predict_setup(s))
    [] var = "SIR_sigmoid" -> ModelParams(SIR_sigmoid_predict_setup(s))

\* the state predict starts the integration from
predict_y0(var, s) ==
  IF var = "SIHRF" THEN <<s.S_0, s.I_0, s.H_0, s.R_0, s.F_0>> ELSE <<s.S_0, s.I_0, s.R_0>>

(***************************************************************************)
(* What a call of estimate or predict leaves behind: the instance and the  *)
(* exception the caller sees ("none" when the call returns).               *)
(***************************************************************************)
\* estimate: KeyError when the intervention date is not in the aligned index,
\* TypeError when minimize evaluates the R0 constraints at the start point and
\* self.R0bounds is None (before any call of loss), ValueError when the first
\* loss cannot subtract the observed series
estimate_outcome(var, s, trials, x) ==
  IF get_loc(s.confirmed.idx, s.quarantineDate) < 0
  THEN [self |-> s, err |-> "KeyError"]
  ELSE IF s.R0bounds = None
  THEN [self |-> estimate_begin(var, s), err |-> "TypeError"]
  ELSE IF LossRaises(var, s)
  THEN [self |-> loss(var, estimate_begin(var, s), trials[1]).self, err |-> "ValueError"]
  ELSE [self |-> estimate(var, s, trials, x), err |-> "none"]

\* predict: AttributeError when no estimate has set the fitted attributes
predict_outcome(var, s) ==
  IF var = "SIR"
  THEN IF ~s.fitted THEN [self |-> s, err |-> "AttributeError"]
       ELSE [self |-> predict(var, s), err |-> "none"]
  ELSE IF get_loc(s.confirmed.idx, s.quarantineDate) < 0
  THEN [self |-> s, err |-> "KeyError"]
  ELSE IF ~s.fitted
  THEN [self |-> SIHRF_predict_setup(s), err |-> "AttributeError"]
  ELSE [self |-> predict(var, s), err |-> "none"]

(***************************************************************************)
(* History kept for the statements below; the program does not read it.    *)
(*   lastOp    the last call made on the instance                          *)
(*   calls     how many estimate and rolling calls were made (MaxCalls)    *)
(*   npredict  how many predict calls returned in a row (at most 2)        *)
(*   x         optimal.x of the last estimate that returned                *)
(*   point     the trial point of the last loss call, lossY0 the state it  *)
(*             integrated from                                             *)
(*   reads     the parameters the derivative read in the last predict,     *)
(*             y0 the state that predict integrated from                   *)
(*   orig      the observed series as load_data left them                  *)
(***************************************************************************)
AnyPoint(var) == CHOOSE q \in TrialPoints(var) : TRUE

LogInit(var) ==
  [lastOp |-> "none", calls |-> 0, npredict |-> 0, x |-> AnyPoint(var), point |-> AnyPoint(var),
   lossY0 |-> <<>>, reads |-> ModelParams(BlankSelf), y0 |-> <<>>,
   orig |-> <<EmptySeries, EmptySeries, EmptySeries>>]

LogEstimate(var, s, trials, x, o, name) ==
  [log EXCEPT !.lastOp = name,
              !.calls = IF name = "estimate" THEN @ + 1 ELSE @,
              !.npredict = 0,
              !.x = IF o.err = "none" THEN x ELSE @,
              !.point = IF o.err = "none" THEN Last(trials)
                        ELSE IF o.err = "ValueError" THEN trials[1] ELSE @,
              !.lossY0 = IF o.err = "none" THEN loss(var, s, Last(trials)).y0
                         ELSE IF o.err = "ValueError" THEN loss(var, s, trials[1]).y0 ELSE @]

RollIdle ==
  [I_actual |-> EmptySeries, R_actual |-> EmptySeries, F_actual |-> EmptySeries,
   i |-> 0, betasList |-> <<>>, gammasList |-> <<>>, hospList |-> <<>>,
   cutoffs |-> <<>>, fits |-> <<>>, compared |-> <<>>, starts |-> <<>>,
   before |-> <<EmptySeries, EmptySeries, EmptySeries>>]

Init ==
  /\ variant \in Variants
  /\ raw \in FitRawInputs
  /\ cfg \in FitConfigs
  /\ self = BlankSelf
  /\ pc = "new"
  /\ err = "none"
  /\ roll = RollIdle
  /\ log = LogInit(variant)
  /\ fnIn = [fn |-> "none"]
  /\ fnOut = [fn |-> "none"]

\* __init__ swallowing the exception of line 88: an instance without series
Construct_swallow ==
  /\ pc = "new"
  /\ IF ThresholdReached(raw, cfg)
     THEN /\ self' = init(variant, cfg, raw)
          /\ log' = [log EXCEPT !.lastOp = "init",
                                !.orig = <<self'.I_actual, self'.R_actual, self'.F_actual>>]
     ELSE /\ self' = [BlankSelf EXCEPT !.N = cfg.N, !.R_0th = cfg.nth]
          /\ log' = log
  /\ pc' = "ready"
  /\ err' = "none"
  /\ UNCHANGED <<variant, raw, cfg, roll, fnIn, fnOut>>

\* Model(...): __init__, which raises IndexError at line 88 when the threshold is
\* never reached
Construct ==
  /\ pc = "new"
  /\ IF ThresholdReached(raw, cfg)
     THEN /\ self' = init(variant, cfg, raw)
          /\ pc' = "ready"
          /\ err' = "none"
          /\ log' = [log EXCEPT !.lastOp = "init",
                                !.orig = <<self'.I_actual, self'.R_actual, self'.F_actual>>]
     ELSE /\ pc' = "failed"
          /\ err' = "IndexError"
          /\ UNCHANGED <<self, log>>
  /\ UNCHANGED <<variant, raw, cfg, roll, fnIn, fnOut>>

\* m.estimate()
Estimate ==
  /\ pc = "ready"
  /\ log.calls < MaxCalls
  /\ \E trials \in TrialSeqs(variant) :
       \E k \in 1..Len(trials) :
         \E o \in {estimate_outcome(variant, self, trials, trials[k])} :
            /\ self' = o.self
            /\ err' = o.err
            /\ log' = LogEstimate(variant, self, trials, trials[k], o, "estimate")
  /\ UNCHANGED <<variant, raw, cfg, pc, roll, fnIn, fnOut>>

\* m.predict()
Predict ==
  /\ pc = "ready"
  /\ \E o \in {predict_outcome(variant, self)} :
        /\ self' = o.self
        /\ err' = o.err
        /\ log' = [log EXCEPT !.lastOp = "predict",
                              !.npredict = IF o.err # "none" THEN 0
                                           ELSE IF @ >= 1 THEN 2 ELSE 1,
                              !.reads = IF o.err = "none" THEN predict_reads(variant, self)
                                        ELSE @,
                              !.y0 = IF o.err = "none" THEN predict_y0(variant, self) ELSE @]
  /\ UNCHANGED <<variant, raw, cfg, pc, roll, fnIn, fnOut>>

(***************************************************************************)
(* rollingBetas and rollingHosp, one step per pass of the loop.  roll      *)
(* holds the locals of the call; cutoffs, fits, compared and starts are    *)
(* history: per pass, the cutoff date, optimal.x, the series the loss was  *)
(* compared against and the start point handed to minimize; before is the  *)
(* observed series of the instance when the call was made.                 *)
(***************************************************************************)
\* lines 249-252: the lists and the copies of the observed series
rollingBetas_locals(s) ==
  [RollIdle EXCEPT !.I_actual = s.I_actual, !.R_actual = s.R_actual,
                   !.before = <<s.I_actual, s.R_actual, s.F_actual>>]

\* lines 557-561: F_actual is a copy of self.R_actual
rollingHosp_locals(s) ==
  [RollIdle EXCEPT !.I_actual = s.I_actual, !.R_actual = s.R_actual,
                   !.F_actual = s.R_actual,
                   !.before = <<s.I_actual, s.R_actual, s.F_actual>>]

\* lines 254-255: the observed series restricted to the dates up to the cutoff
rollingBetas_restrict(s, r, date) ==
  [s EXCEPT !.I_actual = LocTo(r.I_actual, date),
            !.R_actual = LocTo(r.R_actual, date)]

\* lines 564-566
rollingHosp_restrict(s, r, date) ==
  [s EXCEPT !.I_actual = LocTo(r.I_actual, date),
            !.R_actual = LocTo(r.R_actual, date),
            !.F_actual = LocTo(r.F_actual, date)]

\* self.df['H'].max()
MaxOf(col) == CHOOSE x \in Range(col) : \A y \in Range(col) : y <= x

\* the table of the fits without the fit of the first cutoff
rollingBetas_result_short(s, r) ==
  [index |-> s.I_actual.idx, beta |-> Tail(r.betasList), gamma |-> Tail(r.gammasList)]

\* lines 260-262: the table of the fits, indexed by self.I_actual.index
rollingBetas_result(s, r) ==
  [index |-> s.I_actual.idx, beta |-> r.betasList, gamma |-> r.gammasList]

\* lines 571-573
rollingHosp_result(s, r) ==
  [index |-> s.I_actual.idx, H_max |-> r.hospList]

RollHistory(r, date, x, s1, trials) ==
  [r EXCEPT !.i = @ + 1,
            !.cutoffs = Append(@, date),
            !.fits = Append(@, x),
            !.compared = Append(@, loss(variant, s1, trials[1]).compared),
            !.starts = Append(@, StartPoint(variant))]

rollingBetas_call ==
  /\ pc = "ready"
  /\ log.calls < MaxCalls
  /\ pc' = "rollingBetas"
  /\ roll' = rollingBetas_locals(self)
  /\ err' = "none"
  /\ log' = [log EXCEPT !.lastOp = "rollingBetas", !.calls = @ + 1, !.npredict = 0]
  /\ UNCHANGED <<variant, raw, cfg, self, fnIn, fnOut>>

\* one pass of the loop of rollingBetas; line 257 reads self.beta, which
\* SIR_sigmoid.estimate never assigns
rollingBetas_pass ==
  /\ pc = "rollingBetas"
  /\ roll.i < Len(self.confirmed.idx)
  /\ \E date \in {self.confirmed.idx[roll.i + 1]} :
     \E s1 \in {rollingBetas_restrict(self, roll, date)} :
        \E trials \in TrialSeqs(variant) :
          \E k \in 1..Len(trials) :
            \E o \in {estimate_outcome(variant, s1, trials, trials[k])} :
            \E raised \in {IF o.err # "none" THEN o.err
                           ELSE IF variant = "SIR_sigmoid" THEN "AttributeError"
                           ELSE "none"} :
               /\ self' = o.self
               /\ err' = raised
               /\ log' = LogEstimate(variant, s1, trials, trials[k], o, "rollingBetas")
               /\ IF raised # "none"
                  THEN /\ pc' = "ready"
                       /\ roll' = IF o.err = "KeyError" THEN roll
                                  ELSE IF o.err = "TypeError"
                                  THEN [roll EXCEPT !.cutoffs = Append(@, date),
                                                    !.starts = Append(@, StartPoint(variant))]
                                  ELSE [roll EXCEPT
                                          !.compared = Append(@, loss(variant, s1, trials[1]).compared),
                                          !.cutoffs = Append(@, date),
                                          !.starts = Append(@, StartPoint(variant))]
                  ELSE /\ pc' = pc
                       /\ roll' = [RollHistory(roll, date, trials[k], s1, trials) EXCEPT
                                     !.betasList = Append(@, o.self.beta),
                                     !.gammasList = Append(@, o.self.gamma)]
  /\ UNCHANGED <<variant, raw, cfg, fnIn, fnOut>>

\* pd.DataFrame(...) numbers its rows from 0 until an index is assigned
RangeIndex(n) == [i \in 1..n |-> i - 1]

\* lines 260-262; assigning an index of another length raises ValueError
rollingBetas_return ==
  /\ pc = "rollingBetas"
  /\ roll.i = Len(self.confirmed.idx)
  /\ IF Len(self.I_actual.idx) = Len(roll.betasList)
     THEN /\ self' = [self EXCEPT !.rollingList = rollingBetas_result(self, roll)]
          /\ err' = "none"
          /\ log' = [log EXCEPT !.lastOp = "rollingBetas_return"]
     ELSE /\ self' = [self EXCEPT !.rollingList =
                        [rollingBetas_result(self, roll) EXCEPT
                           !.index = RangeIndex(Len(roll.betasList))]]
          /\ err' = "ValueError"
          /\ log' = log
  /\ pc' = "ready"
  /\ UNCHANGED <<variant, raw, cfg, roll, fnIn, fnOut>>

\* rollingHosp is a method of SIHRF only
rollingHosp_call ==
  /\ pc = "ready"
  /\ log.calls < MaxCalls
  /\ variant = "SIHRF"
  /\ pc' = "rollingHosp"
  /\ roll' = rollingHosp_locals(self)
  /\ err' = "none"
  /\ log' = [log EXCEPT !.lastOp = "rollingHosp", !.calls = @ + 1, !.npredict = 0]
  /\ UNCHANGED <<variant, raw, cfg, self, fnIn, fnOut>>

\* one pass of the loop of rollingHosp: restrict, estimate, predict, append
rollingHosp_pass ==
  /\ pc = "rollingHosp"
  /\ roll.i < Len(self.confirmed.idx)
  /\ \E date \in {self.confirmed.idx[roll.i + 1]} :
     \E s1 \in {rollingHosp_restrict(self, roll, date)} :
        \E trials \in TrialSeqs(variant) :
          \E k \in 1..Len(trials) :
            \E o \in {estimate_outcome(variant, s1, trials, trials[k])} :
               /\ err' = o.err
               /\ IF o.err # "none"
                  THEN /\ self' = o.self
                       /\ pc' = "ready"
                       /\ roll' = roll
                       /\ log' = LogEstimate(variant, s1, trials, trials[k], o, "rollingHosp")
                  ELSE /\ self' = predict(variant, o.self)
                       /\ pc' = pc
                       /\ roll' = [RollHistory(roll, date, trials[k], s1, trials) EXCEPT
                                     !.hospList = Append(@, MaxOf(self'.df.H))]
                       /\ log' = [LogEstimate(variant, s1, trials, trials[k], o, "rollingHosp")
                                    EXCEPT !.reads = predict_reads(variant, o.self),
                                           !.y0 = predict_y0(variant, o.self)]
  /\ UNCHANGED <<variant, raw, cfg, fnIn, fnOut>>

\* lines 571-573; assigning an index of another length raises ValueError
rollingHosp_return ==
  /\ pc = "rollingHosp"
  /\ roll.i = Len(self.confirmed.idx)
  /\ IF Len(self.I_actual.idx) = Len(roll.hospList)
     THEN /\ self' = [self EXCEPT !.rollingHospList = rollingHosp_result(self, roll)]
          /\ err' = "none"
          /\ log' = [log EXCEPT !.lastOp = "rollingHosp_return"]
     ELSE /\ self' = [self EXCEPT !.rollingHospList =
                        [rollingHosp_result(self, roll) EXCEPT
                           !.index = RangeIndex(Len(roll.hospList))]]
          /\ err' = "ValueError"
          /\ log' = log
  /\ pc' = "ready"
  /\ UNCHANGED <<variant, raw, cfg, roll, fnIn, fnOut>>

Next ==
  \/ Construct
  \/ Estimate
  \/ Predict
  \/ rollingBetas_call
  \/ rollingBetas_pass
  \/ rollingBetas_return
  \/ rollingHosp_call
  \/ rollingHosp_pass
  \/ rollingHosp_return

Spec == Init /\ [][Next]_vars

(***************************************************************************)
(* Construction alone, over every raw series and constructor argument of   *)
(* the bounds.                                                             *)
(***************************************************************************)
InitLoad ==
  /\ variant \in Variants
  /\ raw \in RawInputs
  /\ cfg \in Configs \cup InvalidConfigs
  /\ self = BlankSelf
  /\ pc = "new"
  /\ err = "none"
  /\ roll = RollIdle
  /\ log = LogInit(variant)
  /\ fnIn = [fn |-> "none"]
  /\ fnOut = [fn |-> "none"]

NextLoad == Construct

SpecLoad == InitLoad /\ [][NextLoad]_vars

(***************************************************************************)
(* The derivatives, the closures, calculateNB and extend_index applied to  *)
(* arguments drawn from the bounds: fnIn is the call, fnOut what it        *)
(* returns.  Denominators (S_0_model, den, lambda) are non-zero.           *)
(***************************************************************************)
Pops == 0..MaxPop

Rates == 0..MaxRate

FnParams == ModelParams(BlankSelf)

\* an index of n consecutive daily dates beginning at first
DailyIndex(first, n) == [i \in 1..n |-> first + i - 1]

\* an S column of n rows, constant except for a drop of one unit at row d
\* (rows counted from 0)
DropColumn(n, d, level) == [i \in 1..n |-> IF i - 1 < d THEN level ELSE level - 1]

ModelInputs ==
  {[fn |-> "SIR_model", t |-> 0, y |-> y,
    p |-> [FnParams EXCEPT !.beta_model = Rat(b), !.gamma_model = g, !.S_0_model = s0]] :
     y \in [1..3 -> Pops], b \in Rates, g \in Rates, s0 \in 1..MaxPop}
  \cup
  {[fn |-> "SIR_sigmoid_model", t |-> t, y |-> y,
    p |-> [FnParams EXCEPT !.beta1_model = b1, !.beta2_model = b2, !.lambda_model = l,
                           !.gamma_model = 1, !.S_0_model = MaxPop, !.sig_normal_t = 1]] :
     t \in 0..2, y \in [1..3 -> Pops], b1 \in Rates, b2 \in Rates, l \in 1..MaxRate}
  \cup
  {[fn |-> "SIHRF_model", t |-> 0, y |-> <<y[1], y[2], y[3], 0, 0>>,
    p |-> [FnParams EXCEPT !.beta_model = Rat(b), !.gamma_I_model = g[1],
                           !.gamma_H_model = g[2], !.omega_model = om, !.delta_model = de,
                           !.rho = [n |-> 1, d |-> 2], !.S_0_model = MaxPop]] :
     y \in [1..3 -> Pops], b \in Rates, g \in [1..2 -> {1, MaxRate}], om \in Rates,
     de \in 0..PScale}

ClosureInputs ==
  {[fn |-> "SEIR_closure", cls |-> c, t |-> t, y |-> <<y[1], y[2], y[3], 0>>,
    estimateBeta2 |-> e, sigma |-> b[2],
    point |-> IF c = "SEIR"
              THEN (IF e THEN <<b[1], b[3], b2>> ELSE <<b[1], b[3]>>)
              ELSE (IF e THEN <<b[1], b[3], b2, b[2]>> ELSE <<b[1], b[3], b[2]>>),
    den |-> MaxPop, quarantine_loc |-> 1] :
     c \in {"SEIR", "LearnerSEIR"}, t \in 0..2, y \in [1..3 -> Pops],
     b \in [1..3 -> Rates], b2 \in {0, MaxRate}, e \in BOOLEAN}
  \cup
  {[fn |-> "Linear_closure", t |-> t, y |-> y,
    p |-> [beta |-> b[1], beta2 |-> b2, beta3 |-> 1, gamma |-> b[2]],
    den |-> MaxPop, quarantine_loc |-> q, back_loc |-> k] :
     t \in 1..3, y \in [1..3 -> Pops], b \in [1..2 -> Rates], b2 \in {0, MaxRate},
     q \in 2..3, k \in 2..3}

TableInputs ==
  {[fn |-> "calculateNB", df |-> [index |-> DailyIndex(0, n), S |-> DropColumn(n, d, level)],
    d |-> d, hospRate |-> [n |-> 1, d |-> hd], daysToHosp |-> k, hospitalDuration |-> l] :
     n \in 2..MaxRows, d \in 1..(MaxRows - 1), level \in 1..MaxPop, hd \in 1..2,
     k \in 0..MaxLag, l \in 0..MaxLag}
  \cup
  {[fn |-> "SIR_predict_table", new_index |-> DailyIndex(0, n),
    prediction |-> [i \in 1..n |-> <<S[i], MaxPop - S[i], 0>>],
    I_actual |-> Series(DailyIndex(0, n - 1), [i \in 1..(n - 1) |-> 1]),
    R_actual |-> Series(DailyIndex(0, n - 1), [i \in 1..(n - 1) |-> 0]),
    hospRate |-> [n |-> 1, d |-> 2], daysToHosp |-> k, hospitalDuration |-> l] :
     n \in {MaxRows - 2, MaxRows}, S \in [1..MaxRows -> Pops], k \in 0..MaxLag, l \in 0..MaxLag}
  \cup
  {[fn |-> f, index |-> DailyIndex(first, n), new_size |-> h] :
     f \in {"extend_index", "Learner_extend_index"}, first \in 1..2, n \in 1..RawLen,
     h \in 0..(MaxHorizon + 1)}

\* pairs (lower, upper) of bounds with lower <= upper
BoundPairs == {b \in (0..MaxRate) \X (0..MaxRate) : b[1] <= b[2]}

\* the constraints of each class at a trial point; gamma, and the gamma of the
\* SIHRF constraints, are positive
ConstraintInputs ==
  {[fn |-> "SIR_constraints", R0bounds |-> b,
    point |-> [beta |-> be, gamma |-> g, S_0p |-> 1]] :
     b \in BoundPairs, be \in Rates, g \in 1..MaxRate}
  \cup
  {[fn |-> "SIR_sigmoid_constraints", R0bounds |-> b,
    point |-> [beta1 |-> b1, beta2 |-> b2, lamb |-> 1, gamma |-> g, S_0p |-> 1]] :
     b \in BoundPairs, b1 \in Rates, b2 \in Rates, g \in 1..MaxRate}
  \cup
  {[fn |-> "SIHRF_constraints", R0bounds |-> b, gammaBounds |-> <<gb[1], 2 * gb[2]>>,
    rho |-> [n |-> 1, d |-> 2],
    point |-> [beta |-> be, gamma_I |-> g[1], gamma_H |-> g[2], omega |-> g[3],
               S_0p |-> 1, delta |-> de]] :
     b \in BoundPairs, gb \in BoundPairs, be \in Rates, g \in [1..3 -> 1..MaxRate],
     de \in {0, PScale}}

\* what solve_ivp hands back to SIR.loss for a window of size dates: a row for
\* each of the first k evaluation points, k < size when the integration failed
SolutionInputs ==
  {[fn |-> "SIR_loss_score", size |-> n,
    solution |-> [t \in 1..k |-> y],
    I_actual |-> Series(DailyIndex(1, n), [i \in 1..n |-> a[1]]),
    R_actual |-> Series(DailyIndex(1, n), [i \in 1..n |-> a[2]])] :
     n \in 2..RawLen, k \in 0..RawLen, y \in [1..3 -> Pops], a \in [1..2 -> 0..MaxCount]}

\* the derivatives with the normalising pool 0 or positive: S_0_model = N * S_0p
\* with S_0p = 0, self.R_0 = 0 when nobody is removed on the first aligned date
PoolInputs ==
  {[fn |-> "SIR_model_values", t |-> 0, y |-> y,
    p |-> [FnParams EXCEPT !.beta_model = Rat(b), !.gamma_model = 1, !.S_0_model = s0]] :
     y \in [1..3 -> Pops], b \in Rates, s0 \in 0..MaxPop}
  \cup
  {[fn |-> "SEIR_closure_values", t |-> 0, y |-> <<y[1], y[2], y[3], 0>>,
    p |-> [beta |-> b, beta2 |-> b, sigma |-> 1, gamma |-> 1],
    den |-> den, quarantine_loc |-> 1] :
     y \in [1..3 -> (-1)..1], b \in 1..MaxRate, den \in {0, MaxPop}}

FnInputs ==
  {i \in ModelInputs \cup ClosureInputs \cup TableInputs \cup ConstraintInputs
         \cup SolutionInputs \cup PoolInputs :
     /\ i.fn = "SIR_loss_score" => Len(i.solution) <= i.size
     /\ i.fn = "calculateNB" => i.d < Len(i.df.S)}

FnIdle == [fn |-> "none"]

InitFn ==
  /\ variant = "SIR"
  /\ raw = [confirmed |-> <<>>, recovered |-> <<>>, fatal |-> <<>>]
  /\ cfg = [nth |-> 0]
  /\ self = BlankSelf
  /\ pc = "fn"
  /\ err = "none"
  /\ roll = RollIdle
  /\ log = LogInit(variant)
  /\ fnIn \in FnInputs
  /\ fnOut = FnIdle

Returns(fn, out) ==
  /\ fnIn.fn = fn
  /\ fnOut = FnIdle
  /\ fnOut' = [fn |-> fn, out |-> out]
  /\ UNCHANGED <<variant, raw, cfg, self, pc, err, roll, log, fnIn>>

Apply_SIR_model == Returns("SIR_model", SIR_model(fnIn.t, fnIn.y, fnIn.p))

Apply_SIR_sigmoid_model ==
  Returns("SIR_sigmoid_model", SIR_sigmoid_model(fnIn.t, fnIn.y, fnIn.p))

Apply_SIHRF_model == Returns("SIHRF_model", SIHRF_model(fnIn.t, fnIn.y, fnIn.p))

Apply_SEIR_closure ==
  /\ fnIn.fn = "SEIR_closure"
  /\ \E p \in {IF fnIn.cls = "SEIR"
               THEN SEIR_loss_point(fnIn.estimateBeta2, fnIn.sigma, fnIn.point)
               ELSE Learner_loss_point(fnIn.estimateBeta2, fnIn.point)} :
       Returns("SEIR_closure", SEIR_closure(fnIn.t, fnIn.y, p, fnIn.den, fnIn.quarantine_loc))

Apply_Linear_closure ==
  Returns("Linear_closure",
          Linear_closure(fnIn.t, fnIn.y, fnIn.p, fnIn.den, fnIn.quarantine_loc, fnIn.back_loc))

Apply_calculateNB ==
  Returns("calculateNB",
          calculateNB(fnIn.df, fnIn.hospRate, fnIn.daysToHosp, fnIn.hospitalDuration))

\* the table SIR.predict builds from the prediction, and calculateNB on it
Apply_SIR_predict_table ==
  /\ fnIn.fn = "SIR_predict_table"
  /\ \E df \in {[index |-> fnIn.new_index,
                  I_Actual |-> reindex(fnIn.I_actual, fnIn.new_index),
                  R_Actual |-> reindex(fnIn.R_actual, fnIn.new_index),
                  S |-> Col(fnIn.prediction, 1),
                  I |-> Col(fnIn.prediction, 2),
                  R |-> Col(fnIn.prediction, 3)]} :
       Returns("SIR_predict_table",
               calculateNB(df, fnIn.hospRate, fnIn.daysToHosp, fnIn.hospitalDuration))

Apply_extend_index == Returns("extend_index", extend_index(fnIn.index, fnIn.new_size))

Apply_Learner_extend_index ==
  Returns("Learner_extend_index", Learner_extend_index(fnIn.index, fnIn.new_size))

\* the constraints of SIR.estimate at fnIn.point
Apply_SIR_constraints ==
  Returns("SIR_constraints",
          constraints("SIR", [BlankSelf EXCEPT !.R0bounds = fnIn.R0bounds], fnIn.point))

\* the constraints of SIR_sigmoid.estimate at fnIn.point
Apply_SIR_sigmoid_constraints ==
  Returns("SIR_sigmoid_constraints",
          constraints("SIR_sigmoid", [BlankSelf EXCEPT !.R0bounds = fnIn.R0bounds],
                      fnIn.point))

\* the constraints of SIHRF.estimate at fnIn.point, and the gamma and R0 that
\* estimate stores when minimize returns fnIn.point
Apply_SIHRF_constraints ==
  /\ fnIn.fn = "SIHRF_constraints"
  /\ \E s \in {[BlankSelf EXCEPT !.R0bounds = fnIn.R0bounds,
                                 !.gammaBounds = fnIn.gammaBounds,
                                 !.rho = fnIn.rho]} :
        \E fit \in {SIHRF_estimate(s, <<>>, fnIn.point)} :
           Returns("SIHRF_constraints",
                   [margins |-> constraints("SIHRF", s, fnIn.point),
                    gamma |-> fit.gamma, R0 |-> fit.R0])

\* the statements of SIR.loss after solve_ivp, on the solution fnIn.solution
Apply_SIR_loss_score ==
  Returns("SIR_loss_score",
          SIR_loss_score([BlankSelf EXCEPT !.I_actual = fnIn.I_actual,
                                           !.R_actual = fnIn.R_actual],
                         fnIn.solution))

Apply_SIR_model_values ==
  Returns("SIR_model_values", SIR_model_values(fnIn.t, fnIn.y, fnIn.p))

Apply_SEIR_closure_values ==
  Returns("SEIR_closure_values",
          SEIR_closure_values(fnIn.t, fnIn.y, fnIn.p, fnIn.den, fnIn.quarantine_loc))

NextFn ==
  \/ Apply_SIR_model_values
  \/ Apply_SEIR_closure_values
  \/ Apply_SIR_loss_score
  \/ Apply_SIR_constraints
  \/ Apply_SIR_sigmoid_constraints
  \/ Apply_SIHRF_constraints
  \/ Apply_SIR_model
  \/ Apply_SIR_sigmoid_model
  \/ Apply_SIHRF_model
  \/ Apply_SEIR_closure
  \/ Apply_Linear_closure
  \/ Apply_calculateNB
  \/ Apply_SIR_predict_table
  \/ Apply_extend_index
  \/ Apply_Learner_extend_index

SpecFn == InitFn /\ [][NextFn]_vars

(***************************************************************************)
(* LearnerSEIR.  An optional number is None or a one-element tuple holding *)
(* the number supplied; rates are whole multiples of 1e-8, the lower bound *)
(* the code gives beta and gamma.                                          *)
(***************************************************************************)
\* `not o` of an optional number: None and 0 are both falsy
Falsy(o) == o = None \/ o = <<0>>

RateUnit == 100000000

LearnerConfigs ==
  [N : {SScale * MaxPop},
   infectedAssumption : {1},
   recoveredAssumption : {1},
   nth : {1},
   daysPredict : {MaxHorizon},
   quarantineDate : {0, 1},
   estimateBeta2 : BOOLEAN,
   forcedBeta : {None, <<0>>, <<RateUnit>>},
   forcedGamma : {None, <<RateUnit \div 2>>},
   elag : {0, 1}]

\* the raw series of the LearnerSEIR runs: those without deaths
LearnerRawInputs == {r \in RawInputs : r.fatal[RawLen] = 0}

LearnerBlank ==
  [R_0 |-> 0, infectedAssumption |-> 0, recoveredAssumption |-> 0, R_0th |-> 0,
   daysPredict |-> 0, quarantineDate |-> 0, estimateBeta2 |-> FALSE,
   forcedBeta |-> None, forcedGamma |-> None, elag |-> 0,
   confirmed |-> EmptySeries, recovered |-> EmptySeries, fatal |-> EmptySeries,
   quarantine_index |-> EmptySeries,
   E_0 |-> 0, I_0 |-> 0, S_0 |-> 0,
   R_actual |-> EmptySeries, I_actual |-> EmptySeries, end_data |-> 0,
   quarantine_loc |-> 0, fitted |-> FALSE, hasSigma |-> FALSE,
   beta |-> 0, gamma |-> 0, beta2 |-> 0, sigma |-> 0, R0 |-> [n |-> 0, d |-> 1]]

\* LearnerSEIR.load_data after load_CSSE; called only when it does not raise
Learner_load_data(s, r) ==
  LET confirmed == Series(RawIndex, SeqMul(r.confirmed, s.infectedAssumption))
      recovered == Series(RawIndex,
                          SeqMul(r.recovered, s.infectedAssumption * s.recoveredAssumption))
      fatal == Series(RawIndex, r.fatal)
      nth_index == Min(ReachedDates(confirmed, s.R_0th))
      quarantineDate == IF s.quarantineDate = 0 THEN Last(confirmed.idx)
                        ELSE s.quarantineDate
      quarantine_index ==
        Series(confirmed.idx,
               [i \in 1..Len(confirmed.idx) |-> confirmed.idx[i] >= quarantineDate])
      s1 == [s EXCEPT !.quarantineDate = quarantineDate,
                      !.quarantine_index = LocFrom(quarantine_index, nth_index),
                      !.confirmed = LocFrom(confirmed, nth_index),
                      !.fatal = LocFrom(fatal, nth_index),
                      !.recovered = LocFrom(recovered, nth_index)]
      R_0 == s1.recovered.val[1] + s1.fatal.val[1]
      I_0 == s1.confirmed.val[1] - R_0
      R_actual == Series(s1.fatal.idx, SeqAdd(s1.fatal.val, s1.recovered.val))
  IN [s1 EXCEPT !.E_0 = s1.confirmed.val[s.elag + 1],
                !.R_0 = R_0,
                !.I_0 = I_0,
                !.S_0 = R_0 - R_0 - I_0,
                !.R_actual = R_actual,
                !.I_actual = Series(s1.confirmed.idx, SeqSub(s1.confirmed.val, R_actual.val))]

\* how many dates the truncation of lines 1031-1034 keeps
Learner_aligned(r, c) ==
  LET confirmed == Series(RawIndex, SeqMul(r.confirmed, c.infectedAssumption))
  IN Len(LocFrom(confirmed, Min(ReachedDates(confirmed, c.nth))).idx)

\* load_data raises IndexError at line 1024 when the threshold is never reached
\* and at line 1037 when fewer than elag + 1 dates are kept
Learner_load_raises(r, c) ==
  \/ ~ThresholdReached(r, c)
  \/ c.elag >= Learner_aligned(r, c)

\* LearnerSEIR.__init__, load_data not raising
Learner_init(c, r) ==
  LET s0 == [LearnerBlank EXCEPT !.R_0 = c.N,
                                 !.infectedAssumption = c.infectedAssumption,
                                 !.recoveredAssumption = c.recoveredAssumption,
                                 !.R_0th = c.nth,
                                 !.daysPredict = c.daysPredict,
                                 !.quarantineDate = c.quarantineDate,
                                 !.estimateBeta2 = c.estimateBeta2,
                                 !.forcedBeta = c.forcedBeta,
                                 !.forcedGamma = c.forcedGamma,
                                 !.elag = c.elag]
      s1 == Learner_load_data(s0, r)
  IN [s1 EXCEPT !.end_data = Last(s1.confirmed.idx)]

\* the bounds LearnerSEIR.estimate hands to minimize, as pairs (lower, upper)
Learner_bounds(s) ==
  [beta |-> IF Falsy(s.forcedBeta) THEN <<1, 2 * RateUnit>>
            ELSE <<s.forcedBeta[1], s.forcedBeta[1]>>,
   gamma |-> IF Falsy(s.forcedGamma) THEN <<1, 2 * RateUnit>>
             ELSE <<s.forcedGamma[1], s.forcedGamma[1]>>,
   beta2 |-> <<1, 2 * RateUnit>>,
   sigma |-> <<1000, 2 * RateUnit>>]

\* values L-BFGS-B can return for a parameter: it keeps every iterate in the box
BoxValues(b) == {v \in {b[1], RateUnit, b[2]} : b[1] <= v /\ v <= b[2]}

\* optimal.x of the minimize call of lines 1070-1078 or 1087-1095
Learner_optima(s) ==
  LET b == Learner_bounds(s)
  IN [beta : BoxValues(b.beta), gamma : BoxValues(b.gamma),
      beta2 : IF s.estimateBeta2 THEN BoxValues(b.beta2) ELSE {0},
      sigma : BoxValues(b.sigma)]

\* what loss can do on this instance: the closure of lines 1118-1128 divides by
\* self.R_0, and with self.R_0 = 0 what solve_ivp returns for the non-finite
\* derivative, and so whether the subtraction of line 1135 raises, is not fixed
\* by the code
Learner_loss_errors(s) ==
  IF s.R_0 = 0 THEN {"none", "ValueError", "IndexError"} ELSE {"none"}

\* LearnerSEIR.estimate with optimal.x = x and loss ending in lossErr
Learner_estimate_outcome(s, x, lossErr) ==
  IF get_loc(s.confirmed.idx, s.quarantineDate) < 0
  THEN [self |-> s, err |-> "KeyError"]
  ELSE LET s0 == [s EXCEPT !.quarantine_loc = get_loc(s.confirmed.idx, s.quarantineDate)]
       IN IF lossErr # "none" THEN [self |-> s0, err |-> lossErr]
          ELSE IF s.estimateBeta2
          THEN LET s1 == [s0 EXCEPT !.beta = x.beta, !.gamma = x.gamma, !.beta2 = x.beta2]
               IN IF ~s.hasSigma THEN [self |-> s1, err |-> "AttributeError"]
                  ELSE [self |-> [s1 EXCEPT !.R0 = [n |-> x.beta, d |-> x.gamma],
                                            !.fitted = TRUE],
                        err |-> "none"]
          ELSE [self |-> [s0 EXCEPT !.beta = x.beta, !.gamma = x.gamma,
                                    !.sigma = x.sigma, !.hasSigma = TRUE,
                                    !.R0 = [n |-> x.beta, d |-> x.gamma],
                                    !.fitted = TRUE],
                err |-> "none"]

\* history: bounds is what the last estimate handed to minimize, call which of
\* the two minimize calls it made
LearnerLogInit == [lastOp |-> "none", calls |-> 0, bounds |-> None, call |-> 0]

InitLearner ==
  /\ variant = "LearnerSEIR"
  /\ raw \in LearnerRawInputs
  /\ cfg \in LearnerConfigs
  /\ self = LearnerBlank
  /\ pc = "new"
  /\ err = "none"
  /\ roll = RollIdle
  /\ log = LearnerLogInit
  /\ fnIn = [fn |-> "none"]
  /\ fnOut = [fn |-> "none"]

\* LearnerSEIR(...)
Learner_Construct ==
  /\ pc = "new"
  /\ IF Learner_load_raises(raw, cfg)
     THEN /\ pc' = "failed"
          /\ err' = "IndexError"
          /\ UNCHANGED <<self, log>>
     ELSE /\ self' = Learner_init(cfg, raw)
          /\ pc' = "ready"
          /\ err' = "none"
          /\ log' = [log EXCEPT !.lastOp = "init"]
  /\ UNCHANGED <<variant, raw, cfg, roll, fnIn, fnOut>>

\* m.estimate()
Learner_Estimate ==
  /\ pc = "ready"
  /\ log.calls < MaxCalls
  /\ \E x \in Learner_optima(self), lossErr \in Learner_loss_errors(self) :
       \E o \in {Learner_estimate_outcome(self, x, lossErr)} :
          /\ self' = o.self
          /\ err' = o.err
          /\ log' = [log EXCEPT !.lastOp = "estimate",
                                !.calls = @ + 1,
                                !.bounds = IF o.err = "KeyError" THEN @
                                           ELSE Learner_bounds(self),
                                !.call = IF o.err = "KeyError" THEN @
                                         ELSE IF self.estimateBeta2 THEN 1070 ELSE 1087]
  /\ UNCHANGED <<variant, raw, cfg, pc, roll, fnIn, fnOut>>

NextLearner ==
  \/ Learner_Construct
  \/ Learner_Estimate

SpecLearner == InitLearner /\ [][NextLearner]_vars

(***************************************************************************)
(* Properties.                                                             *)
(***************************************************************************)

\* C1: conservation.  For every state and every parameter point with a
\* non-zero denominator, the components of the derivative returned by
\* SIR.model, SIR_sigmoid.model, SIHRF.model and the SEIR / LearnerSEIR
\* closures sum to zero, and the row returned by the step of predict_linear
\* sums to the total of the row it was computed from (both over the common
\* denominator DenSEIR).
Conservation ==
  /\ fnOut.fn \in {"SIR_model", "SIR_sigmoid_model", "SIHRF_model", "SEIR_closure"}
       => SumSeq(fnOut.out) = 0
  /\ fnOut.fn = "Linear_closure"
       => SumSeq(fnOut.out) = DenSEIR(fnIn.den) * SumSeq(fnIn.y)

\* a SIHRF derivative with people leaving S and people dying in hospital
ConservationWitness ==
  /\ fnOut.fn = "SIHRF_model"
  /\ fnOut.out[1] < 0
  /\ fnOut.out[4] > 0
  /\ fnOut.out[5] > 0

\* C3: hospital demand shift.  With hospRate = 1 and an S column constant but
\* for one drop of one unit at row d, calculateNB yields one unit of demand at
\* row d + daysToHosp, one unit of discharge at row d + daysToHosp +
\* hospitalDuration, and H = 1 on the rows from d + daysToHosp up to (not
\* including) d + daysToHosp + hospitalDuration, H = 0 on every other row.
HospitalShift ==
  (fnOut.fn = "calculateNB" /\ fnIn.hospRate = [n |-> 1, d |-> 1]) =>
    LET n == Len(fnIn.df.S)
        admit == fnIn.d + fnIn.daysToHosp
        leave == admit + fnIn.hospitalDuration
        demand == hospDemand(fnIn.df, fnIn.hospRate, fnIn.daysToHosp)
        expire == hospExpire(fnIn.df, fnIn.hospRate, fnIn.daysToHosp, fnIn.hospitalDuration)
    IN /\ admit < n => demand[admit + 1] = 1
       /\ leave < n => expire[leave + 1] = 1
       /\ \A row \in 0..(n - 1) :
            fnOut.out.H[row + 1] = IF admit <= row /\ row < leave THEN 1 ELSE 0

\* C8: horizon extension.  For an index of n consecutive daily dates and a
\* horizon h, extend_index of every class returns the n dates followed by
\* exactly h further consecutive dates: n + h rows.
HorizonExtension ==
  fnOut.fn \in {"extend_index", "Learner_extend_index"} =>
    fnOut.out = DailyIndex(fnIn.index[1], Len(fnIn.index) + fnIn.new_size)

\* C9: aligner truncation.  After load_data the confirmed, recovered and
\* fatal series and the intervention mask cover the same dates: the raw dates
\* from the first one at which the scaled confirmed count is >= nth through
\* the last raw date, each series holding its scaled raw values there.
AlignerTruncation ==
  pc = "ready" =>
    LET scaled == [i \in 1..RawLen |-> raw.confirmed[i] * cfg.infectedAssumption]
        first == CHOOSE i \in 1..RawLen :
                   /\ scaled[i] >= cfg.nth
                   /\ \A j \in 1..(i - 1) : scaled[j] < cfg.nth
        dates == [i \in 1..(RawLen - first + 1) |-> first + i - 1]
    IN /\ self.confirmed.idx = dates
       /\ self.recovered.idx = dates
       /\ self.fatal.idx = dates
       /\ self.quarantine_index.idx = dates
       /\ \A i \in 1..Len(dates) :
            /\ self.confirmed.val[i] = scaled[dates[i]]
            /\ self.fatal.val[i] = raw.fatal[dates[i]]

\* an instance whose series lost their first dates
AlignerTruncationWitness ==
  /\ pc = "ready"
  /\ self.confirmed.idx # <<>>
  /\ self.confirmed.idx[1] > 1
  /\ raw.confirmed[1] > 0

\* C10 as stated: if the scaled confirmed series never reaches nth,
\* construction fails with a DataAlignmentError and produces no instance.
NeverReached ==
  \A i \in 1..RawLen : raw.confirmed[i] * cfg.infectedAssumption < cfg.nth

AlignmentErrorRaised ==
  (pc # "new" /\ NeverReached) =>
    /\ pc = "failed"
    /\ err = "DataAlignmentError"
    /\ self = BlankSelf

\* C10 as the code has it: if the scaled confirmed series never reaches nth,
\* construction fails at once with the IndexError of line 88, and no aligned
\* series, initial state or instance is produced.
IndexErrorRaised ==
  (pc # "new" /\ NeverReached) =>
    /\ pc = "failed"
    /\ err = "IndexError"
    /\ self = BlankSelf

\* a construction that failed on a series with cases below the threshold
IndexErrorWitness ==
  /\ pc = "failed"
  /\ NeverReached
  /\ raw.confirmed[RawLen] > 0

\* C2 as stated: for every variant the state that loss and predict integrate
\* sums to the total population N at the initial step.
InitialTotalIsN ==
  /\ log.lossY0 # <<>> => SumSeq(log.lossY0) = cfg.hospRate.d * cfg.N
  /\ (log.lastOp = "predict" /\ err = "none") => SumSeq(log.y0) = cfg.hospRate.d * cfg.N

\* C2 as the code has it: the state that loss and predict integrate sums to
\* N * S_0p plus the scaled confirmed count of the first aligned date, S_0p
\* being the susceptible fraction of the trial point (loss) or of the
\* returned optimum (predict).  Values are in units of 1 / hospRate.d.
InitialTotal ==
  /\ log.lossY0 # <<>> =>
       SumSeq(log.lossY0) = (cfg.hospRate.d * cfg.N * log.point.S_0p) \div SScale
                            + cfg.hospRate.d * self.confirmed.val[1]
  /\ (log.lastOp = "predict" /\ err = "none") =>
       SumSeq(log.y0) = (cfg.hospRate.d * cfg.N * log.x.S_0p) \div SScale
                        + cfg.hospRate.d * self.confirmed.val[1]

\* a predict after a fit whose initial total is not N, some of the first
\* confirmed cases being removed already
InitialTotalWitness ==
  /\ log.lastOp = "predict"
  /\ err = "none"
  /\ log.lossY0 # <<>>
  /\ SumSeq(log.y0) # cfg.hospRate.d * cfg.N
  /\ self.R_0 > 0

\* C4: during predict, for every variant, every parameter value the
\* derivative reads is the corresponding value of the fit estimate returned
\* (optimal.x), whatever trial points the optimizer passed to loss.
PredictReadsFit ==
  (log.lastOp = "predict" /\ err = "none") =>
    /\ log.reads.S_0_model = (cfg.hospRate.d * cfg.N * log.x.S_0p) \div SScale
    /\ CASE variant = "SIR" ->
              /\ log.reads.beta_model = Rat(log.x.beta)
              /\ log.reads.gamma_model = log.x.gamma
         [] variant = "SIHRF" ->
              /\ log.reads.beta_model = Rat(log.x.beta)
              /\ log.reads.gamma_I_model = log.x.gamma_I
              /\ log.reads.gamma_H_model = log.x.gamma_H
              /\ log.reads.omega_model = log.x.omega
              /\ log.reads.delta_model = log.x.delta
         [] variant = "SIR_sigmoid" ->
              /\ log.reads.beta1_model = log.x.beta1
              /\ log.reads.beta2_model = log.x.beta2
              /\ log.reads.lambda_model = log.x.lamb
              /\ log.reads.gamma_model = log.x.gamma

\* C5: walk-forward restriction.  At every cutoff date visited by
\* rollingBetas and rollingHosp, in chronological order, each observed series
\* the loss is compared against (I_actual, R_actual and, for SIHRF, F_actual)
\* is the prefix of the original observed series up to and including that
\* date, and each fit starts from the same fixed start point.
WalkForward ==
  \A i \in 1..Len(roll.compared) :
    /\ roll.cutoffs[i] = self.confirmed.idx[i]
    /\ roll.starts[i] = StartPoint(variant)
    /\ roll.compared[i][1] = LocTo(log.orig[1], roll.cutoffs[i])
    /\ roll.compared[i][2] = LocTo(log.orig[2], roll.cutoffs[i])
    /\ variant = "SIHRF" => roll.compared[i][3] = LocTo(log.orig[3], roll.cutoffs[i])

PredictIdempotent == [][log'.npredict = 2 => self' = self]_vars

\* a second predict in a row has returned
PredictIdempotentWitness ==
  /\ log.npredict = 2
  /\ self.hasDf
  /\ log.lastOp = "predict"

\* C11: for non-negative raw series with recovered + fatal <= confirmed on
\* every date and positive infectedAssumption and recoveredAssumption, the
\* derived series I_actual, R_actual (and F_actual for SIHRF) of a constructed
\* instance are >= 0 on every aligned date
DerivedNonNegative ==
  pc = "ready" =>
    /\ \A i \in Positions(self.I_actual) : self.I_actual.val[i] >= 0
    /\ \A i \in Positions(self.R_actual) : self.R_actual.val[i] >= 0
    /\ variant = "SIHRF" =>
         \A i \in Positions(self.F_actual) : self.F_actual.val[i] >= 0

\* C12: given non-negative observed series (recovered + fatal <= confirmed) and
\* parameters inside their bounds, every compartment of the initial state is
\* >= 0; here for the initial state (S_0, E_0, I_0, R_0) LearnerSEIR.load_data
\* builds, which is the first row of predict_linear
LearnerInitialNonNegative ==
  (pc = "ready" /\ variant = "LearnerSEIR") =>
    /\ self.S_0 >= 0
    /\ self.E_0 >= 0
    /\ self.I_0 >= 0
    /\ self.R_0 >= 0

\* C13: for SIHRF, every trial point at which the four constraint margins are
\* >= 0 has the R0 that estimate stores (beta over the effective gamma
\* (1-rho)*gamma_I + rho*((1-delta)*gamma_H + delta*omega)) inside R0bounds and
\* that effective gamma inside gammaBounds
ConstraintsBoundStored ==
  (fnOut.fn = "SIHRF_constraints" /\ \A k \in 1..4 : fnOut.out.margins[k].n >= 0) =>
    LET gammaDen == fnIn.rho.d * PScale * PScale
    IN /\ fnIn.R0bounds[1] * fnOut.out.R0.d <= fnOut.out.R0.n
       /\ fnOut.out.R0.n <= fnIn.R0bounds[2] * fnOut.out.R0.d
       /\ fnIn.gammaBounds[1] * gammaDen <= fnOut.out.gamma * PScale
       /\ fnOut.out.gamma * PScale <= fnIn.gammaBounds[2] * gammaDen

\* C14: for SIR and SIR_sigmoid the lower margin is R0 - R0bounds[0] and the
\* upper margin R0bounds[1] - R0, with R0 = beta/gamma (beta = (beta1+beta2)/2
\* for SIR_sigmoid), so both are >= 0 exactly when R0 lies in R0bounds, and
\* the upper margin does not depend on R0bounds[0]
R0Margins ==
  fnOut.fn \in {"SIR_constraints", "SIR_sigmoid_constraints"} =>
    LET R0 == IF fnOut.fn = "SIR_constraints"
              THEN [n |-> fnIn.point.beta, d |-> fnIn.point.gamma]
              ELSE [n |-> fnIn.point.beta1 + fnIn.point.beta2, d |-> 2 * fnIn.point.gamma]
        lo == fnIn.R0bounds[1]
        hi == fnIn.R0bounds[2]
        lower == fnOut.out[1]
        upper == fnOut.out[2]
    IN /\ lower.n * R0.d = (R0.n - lo * R0.d) * lower.d
       /\ upper.n * R0.d = (hi * R0.d - R0.n) * upper.d
       /\ (lower.n >= 0 /\ upper.n >= 0) <=> (lo * R0.d <= R0.n /\ R0.n <= hi * R0.d)
       /\ \A other \in 0..hi :
            constraints(IF fnOut.fn = "SIR_constraints" THEN "SIR" ELSE "SIR_sigmoid",
                        [BlankSelf EXCEPT !.R0bounds = <<other, hi>>], fnIn.point)[2] = upper

R0MarginsWitness ==
  /\ fnOut.fn = "SIR_constraints"
  /\ fnIn.R0bounds[1] < fnIn.R0bounds[2]
  /\ fnOut.out[1].n > 0
  /\ fnOut.out[2].n > 0

\* C15: R0bounds is optional.  On a model constructed without R0bounds (the
\* default None), an estimate whose intervention date is an aligned date and
\* whose observed series have one length runs to completion and leaves the
\* fitted parameters; it does not fail for want of an inequality constraint.
R0boundsOptional ==
  (/\ log.lastOp = "estimate"
   /\ self.R0bounds = None
   /\ get_loc(self.confirmed.idx, self.quarantineDate) >= 0
   /\ ~LossRaises(variant, self)) =>
    /\ err = "none"
    /\ self.fitted

\* is a constructor argument off its range: a pair of bounds with lower end
\* above the upper end, a weight outside [0, 1] or a triple of weights not
\* summing to 1, a negative population
InvalidConfig(c) ==
  \/ c.betaBounds[1] > c.betaBounds[2]
  \/ (c.R0bounds # None /\ c.R0bounds[1] > c.R0bounds[2])
  \/ c.alpha < 0
  \/ c.alpha > PScale
  \/ SumSeq(c.alphas) # AlphaScale
  \/ c.N < 0

\* C16: constructing a model with an invalid configuration (a bound pair with
\* lower > upper, loss weights not summing to 1, a negative population N)
\* fails with InvalidConfig, so that estimate is never reached with it
InvalidConfigRejected ==
  (pc # "new" /\ InvalidConfig(cfg)) => (pc = "failed" /\ err = "InvalidConfig")

\* +infinity as a squared error, above every squared error of the bounds
Inf == 1000000

\* C17: whenever the solver returns fewer evaluation points than the fit
\* window has dates, loss raises nothing and returns +infinity for the trial
\* point
IntegrationFailureScored ==
  (fnOut.fn = "SIR_loss_score" /\ Len(fnIn.solution) < fnIn.size) =>
    /\ fnOut.out.raised = "none"
    /\ \E k \in 1..2 : fnOut.out.value[k] = Inf

\* C18: derivative guard.  When the normalising pool in the denominator of the
\* transmission term is <= 0 (S_0_model of SIR.model, self.R_0 of the
\* LearnerSEIR closure), the derivative divides by no zero and every value it
\* returns is finite (loss has no branch of its own for such a point: it
\* scores whatever solve_ivp makes of the values)
DerivativeGuard ==
  /\ (fnOut.fn = "SIR_model_values" /\ fnIn.p.S_0_model <= 0) =>
       \A i \in 1..3 : fnOut.out[i].d # 0
  /\ (fnOut.fn = "SEIR_closure_values" /\ fnIn.den <= 0) =>
       \A i \in 1..4 : fnOut.out[i].d # 0

\* C19: forced parameters.  In LearnerSEIR.estimate, for every supplied
\* forcedBeta (forcedGamma) value v the bounds handed to minimize for beta
\* (gamma) are the single point (v, v) and the value estimate stores is v; when
\* none is supplied they are the default (1e-8, 2.0); which of the two minimize
\* calls is made depends on estimateBeta2 alone
ForcedBounds ==
  (log.lastOp = "estimate" /\ log.call # 0) =>
    /\ cfg.forcedBeta # None =>
         /\ log.bounds.beta = <<cfg.forcedBeta[1], cfg.forcedBeta[1]>>
         /\ err \in {"none", "AttributeError"} => self.beta = cfg.forcedBeta[1]
    /\ cfg.forcedBeta = None => log.bounds.beta = <<1, 2 * RateUnit>>
    /\ cfg.forcedGamma # None =>
         /\ log.bounds.gamma = <<cfg.forcedGamma[1], cfg.forcedGamma[1]>>
         /\ err \in {"none", "AttributeError"} => self.gamma = cfg.forcedGamma[1]
    /\ cfg.forcedGamma = None => log.bounds.gamma = <<1, 2 * RateUnit>>
    /\ log.call = IF cfg.estimateBeta2 THEN 1070 ELSE 1087

\* C20: default intervention date.  When no quarantineDate is supplied, the
\* intervention date of the constructed instance is the last observed date,
\* the intervention mask is true on the last aligned date only, and the
\* offset estimate and predict compute is n - 1 for n aligned dates
DefaultIntervention ==
  (cfg.quarantineDate = 0 /\ pc \notin {"new", "failed"}) =>
    LET n == Len(self.confirmed.idx)
    IN /\ self.quarantineDate = Last(RawIndex)
       /\ self.quarantine_index.idx = self.confirmed.idx
       /\ \A i \in 1..n : self.quarantine_index.val[i] <=> (i = n)
       /\ (\/ log.lastOp = "estimate"
           \/ (log.lastOp = "predict" /\ (variant # "SIR" \/ err = "none"))) =>
            self.quarantine_loc = n - 1

\* an estimate and then a predict of SIHRF computed the offset of the default
\* date on a series of 3 aligned dates
DefaultInterventionWitness ==
  /\ cfg.quarantineDate = 0
  /\ variant = "SIHRF"
  /\ log.lastOp = "predict"
  /\ err = "none"
  /\ Len(self.confirmed.idx) = RawLen
  /\ self.quarantine_loc = RawLen - 1

\* C21: the intervention offset is always defined.  For every supplied
\* intervention date that is a raw observed date, one before the first date
\* that reaches the threshold included, estimate and predict find the offset of
\* the date in the aligned index and go on (no KeyError), and the mask over the
\* aligned index is true from that offset on
InterventionOffsetDefined ==
  (/\ cfg.quarantineDate \in Range(RawIndex)
   /\ log.lastOp \in {"estimate", "predict"}) =>
    /\ err # "KeyError"
    /\ err = "none" =>
         LET n == Len(self.confirmed.idx)
         IN /\ self.quarantine_loc \in 0..(n - 1)
            /\ \A i \in 1..n :
                 self.quarantine_index.val[i] <=> (i - 1 >= self.quarantine_loc)

\* the SEIR derivative with transmission rate b, over DenSEIR(den)
SEIRPhase(b, y, sigma, gamma, den) ==
  << -(b * y[1] * y[3]),
     b * y[1] * y[3] - sigma * y[2] * den,
     sigma * y[2] * den - gamma * y[3] * den,
     gamma * y[3] * den >>

\* the row predict_linear computes with transmission rate b, over DenSEIR(den)
LinearPhase(b, y, gamma, den) ==
  << y[1] * DenSEIR(den) - b * y[1] * y[2],
     y[2] * DenSEIR(den) + b * y[1] * y[2] - gamma * y[2] * den,
     y[3] * DenSEIR(den) + gamma * y[2] * den >>

\* the SEIR and LearnerSEIR derivative of the point handed to loss: rate beta
\* before the intervention offset and beta2 from it on, beta2 being beta when
\* estimateBeta2 is false
SEIRTwoPhase ==
  fnOut.fn = "SEIR_closure" =>
    LET beta == fnIn.point[1]
        gamma == fnIn.point[2]
        beta2 == IF fnIn.estimateBeta2 THEN fnIn.point[3] ELSE beta
        sigma == IF fnIn.cls = "SEIR" THEN fnIn.sigma ELSE fnIn.point[Len(fnIn.point)]
    IN /\ fnIn.t < fnIn.quarantine_loc =>
            fnOut.out = SEIRPhase(beta, fnIn.y, sigma, gamma, fnIn.den)
       /\ fnIn.t >= fnIn.quarantine_loc =>
            fnOut.out = SEIRPhase(beta2, fnIn.y, sigma, gamma, fnIn.den)
       /\ ~fnIn.estimateBeta2 =>
            fnOut.out = SEIRPhase(beta, fnIn.y, sigma, gamma, fnIn.den)

\* C22 as stated: SEIR two-phase transmission, and in predict_linear the rate is
\* beta for t < offset, beta3 for offset <= t < back_loc, and beta2 at every t
\* from back_loc on
TwoPhaseTransmission ==
  /\ SEIRTwoPhase
  /\ fnOut.fn = "Linear_closure" =>
       /\ fnIn.t < fnIn.quarantine_loc =>
            fnOut.out = LinearPhase(fnIn.p.beta, fnIn.y, fnIn.p.gamma, fnIn.den)
       /\ (fnIn.quarantine_loc <= fnIn.t /\ fnIn.t < fnIn.back_loc) =>
            fnOut.out = LinearPhase(fnIn.p.beta3, fnIn.y, fnIn.p.gamma, fnIn.den)
       /\ fnIn.t >= fnIn.back_loc =>
            fnOut.out = LinearPhase(fnIn.p.beta2, fnIn.y, fnIn.p.gamma, fnIn.den)

\* C22 (amended): SEIR two-phase transmission: in the SEIR and LearnerSEIR
\* derivative the rate is beta at every t < offset and beta2 at every
\* t >= offset, the rest of the derivative being the same in both phases, and
\* with estimateBeta2 false beta2 = beta and the phases coincide.  In
\* predict_linear the rate is beta for t < offset, beta3 for
\* offset <= t < back_loc, and beta2 at every t >= offset from back_loc on
TwoPhaseTransmissionFromOffset ==
  /\ SEIRTwoPhase
  /\ fnOut.fn = "Linear_closure" =>
       /\ fnIn.t < fnIn.quarantine_loc =>
            fnOut.out = LinearPhase(fnIn.p.beta, fnIn.y, fnIn.p.gamma, fnIn.den)
       /\ (fnIn.quarantine_loc <= fnIn.t /\ fnIn.t < fnIn.back_loc) =>
            fnOut.out = LinearPhase(fnIn.p.beta3, fnIn.y, fnIn.p.gamma, fnIn.den)
       /\ (fnIn.t >= fnIn.back_loc /\ fnIn.t >= fnIn.quarantine_loc) =>
            fnOut.out = LinearPhase(fnIn.p.beta2, fnIn.y, fnIn.p.gamma, fnIn.den)

\* a step of predict_linear past both the offset and back_loc, whose rate beta2
\* gives another row than beta and beta3 would
TwoPhaseWitness ==
  /\ fnOut.fn = "Linear_closure"
  /\ fnIn.t >= fnIn.quarantine_loc
  /\ fnIn.t >= fnIn.back_loc
  /\ fnOut.out = LinearPhase(fnIn.p.beta2, fnIn.y, fnIn.p.gamma, fnIn.den)
  /\ fnOut.out # LinearPhase(fnIn.p.beta, fnIn.y, fnIn.p.gamma, fnIn.den)
  /\ fnOut.out # LinearPhase(fnIn.p.beta3, fnIn.y, fnIn.p.gamma, fnIn.den)

\* C23: occupancy closed form.  With k = daysToHosp and L = hospitalDuration,
\* after calculateNB the column H at row t (rows counted from 0) is
\* hospRate * (S[t-k-L] - S[t-k]) for every row t >= k + L + 1 and missing at
\* every earlier row; so H is never negative where it is defined when S is
\* non-increasing; and calculateNB leaves the S, I, R and actual columns as
\* they were, adding only H.  (H over hospRate.d, as calculateNB returns it.)
OccupancyClosedForm ==
  fnOut.fn = "SIR_predict_table" =>
    LET S == Col(fnIn.prediction, 1)
        n == Len(S)
        k == fnIn.daysToHosp
        L == fnIn.hospitalDuration
        H == fnOut.out.H
    IN /\ \A t \in 0..(n - 1) :
            H[t + 1] = IF t >= k + L + 1
                       THEN fnIn.hospRate.n * (S[t - k - L + 1] - S[t - k + 1])
                       ELSE NaN
       /\ (\A i \in 1..(n - 1) : S[i + 1] <= S[i]) =>
            \A t \in 0..(n - 1) : H[t + 1] # NaN => H[t + 1] >= 0
       /\ DOMAIN fnOut.out = {"index", "I_Actual", "R_Actual", "S", "I", "R", "H"}
       /\ fnOut.out.index = fnIn.new_index
       /\ fnOut.out.S = S
       /\ fnOut.out.I = Col(fnIn.prediction, 2)
       /\ fnOut.out.R = Col(fnIn.prediction, 3)
       /\ fnOut.out.I_Actual = reindex(fnIn.I_actual, fnIn.new_index)
       /\ fnOut.out.R_Actual = reindex(fnIn.R_actual, fnIn.new_index)

\* a table with daysToHosp = 1 and hospitalDuration = 2 whose H is missing up to
\* row 3 and positive at row 4
OccupancyWitness ==
  /\ fnOut.fn = "SIR_predict_table"
  /\ fnIn.daysToHosp = 1
  /\ fnIn.hospitalDuration = 2
  /\ Len(fnOut.out.H) >= 5
  /\ fnOut.out.H[4] = NaN
  /\ fnOut.out.H[5] > 0

\* C24: rolling estimation restores the observed data.  After rollingBetas or
\* rollingHosp returns, self.I_actual, self.R_actual and, for SIHRF,
\* self.F_actual equal the values they held before the call
RollingRestores ==
  log.lastOp \in {"rollingBetas_return", "rollingHosp_return"} =>
    /\ self.I_actual = roll.before[1]
    /\ self.R_actual = roll.before[2]
    /\ variant = "SIHRF" => self.F_actual = roll.before[3]

====
